---- MODULE Spec2Model ----
(***************************************************************************)
(* Indicator time-series engine of sentio: the stakeholder_assessments     *)
(* table of one stakeholder group, the MCP and HTTP handlers that write    *)
(* and read it (backend/mcp_server/tools/assessments.py,                   *)
(* backend/app/routers/stakeholders.py) and the rating pattern generator   *)
(* (backend/app/generators/rating_patterns.py).                            *)
(*                                                                         *)
(* Numbers.  Stored ratings are integers.  Averages are kept as a pair     *)
(* (sum, count); a value rounded to one decimal is kept as an integer      *)
(* number of tenths (6.0 is 60).  Timestamps are integer clock ticks; the  *)
(* calendar date of a tick is tick \div TicksPerDay.  A value of the       *)
(* pattern generator before rounding is a pair <<numerator, denominator>>  *)
(* of tenths.                                                              *)
(***************************************************************************)
EXTENDS Integers, Sequences, FiniteSets, TLC

VARIABLES
    stakeholder_assessments,  \* the table's rows of the group, in rowid order
    clock,                    \* the last instant datetime.utcnow() returned
    next_id,                  \* number of uuid4() ids handed out so far
    assessments,              \* rows fetched by the last history query, in read order
    response,                 \* what the last handler returned (or raised)
    generated,                \* a call of generate_pattern: its arguments and its result
    earlier,                  \* the calls of generate_pattern completed before it
    history                   \* a call of generate_assessment_history and its result

\* what the handlers of the table leave alone
generators == <<generated, earlier, history>>

vars ==
    <<stakeholder_assessments, clock, next_id, assessments, response, generators>>

----------------------------------------------------------------------------
(* Bounds of the model *)

MaxRecords == 2      \* rows the table may hold under Spec
MaxClock == 2        \* last clock tick
MaxTrendRows == 12   \* rows the table may hold under SpecTrend
MaxTrendOff == 3     \* rows of SpecTrend other than TrendCommon
WeakSeedRows == 17   \* rows of the long history SpecWeak may start from
MaxWeakLive == 3     \* rows SpecWeak adds to the history it starts from
MaxPoints == 4       \* largest num_points of a generate_pattern call
MaxEarlier == 2      \* calls of generate_pattern SpecRepeat remembers
MaxImpulses == 4     \* largest num_impulses of a create_impulse_history call
MaxDaysAgo == 12     \* largest start_days_ago of a create_impulse_history call
MaxNullRows == 4     \* records of a history with missing ratings
MaxShapePoints == 21 \* largest n of a _honeymoon_dip_recovery call
MaxTieRows == 4      \* records of a history written by assessment_batch_create

----------------------------------------------------------------------------
(* Program constants *)

TicksPerDay == 2     \* model resolution of the time of day
WeakThreshold == 6   \* avg < 6
MinTrendRatings == 4 \* len(all_ratings) >= 4
MaxWeak == 5         \* weak_indicators[:5]
MaxImpulseDates == 10 \* sorted(...)[:10]
DefaultLimit == 50   \* get_impulse_history(limit=50)

None == -1            \* Python's None / SQL NULL in a numeric field
NoNotes == ""         \* notes = None

CORE_INDICATORS ==
    <<"orientierung_sinn", "psychologische_sicherheit", "empowerment",
      "partizipation", "wertschaetzung">>

FUEHRUNGSKRAEFTE_INDICATORS ==
    <<"ressourcenfreigabe", "aktive_kommunikation", "widerstandsmanagement",
      "vorbildfunktion">>

Range(s) == {s[i] : i \in 1..Len(s)}

\* The group of the model and its type; "g0" is an id no group has.
GroupId == "g1"
GroupType == "multiplikatoren"

get_indicators_for_group_type(group_type) ==
    IF group_type = "fuehrungskraefte" THEN FUEHRUNGSKRAEFTE_INDICATORS
    ELSE CORE_INDICATORS

\* the definitions with that key: empty when the lookup returns None
get_indicator_by_key(key) ==
    {k \in Range(CORE_INDICATORS) \cup Range(FUEHRUNGSKRAEFTE_INDICATORS) : k = key}

group_exists(group_id) == group_id = GroupId

----------------------------------------------------------------------------
(* Arithmetic helpers *)

RECURSIVE Sum(_)
Sum(s) == IF s = <<>> THEN 0 ELSE Head(s) + Sum(Tail(s))

\* sum(d.values()) of a dict d with key set S
RECURSIVE SumOver(_, _)
SumOver(f, S) ==
    IF S = {} THEN 0
    ELSE LET x == CHOOSE y \in S : TRUE IN f[x] + SumOver(f, S \ {x})

Min(a, b) == IF a < b THEN a ELSE b

\* s[:n] of Python for n >= 0
Prefix(s, n) == SubSeq(s, 1, Min(n, Len(s)))

\* s[n:] of Python for n >= 0
Suffix(s, n) == SubSeq(s, n + 1, Len(s))

(* round(x, 1) of CPython on the binary64 value nearest to k/20, k odd: the  *)
(* values with a 5 in the second decimal, where the result depends on the    *)
(* stored double (1.25 and 1.75 are exact and round half to even; 1.05 is    *)
(* stored above 1.05 and rounds up, 1.15 below and rounds down).  The set    *)
(* holds the k in 21..199 whose k/20 rounds up.                              *)
RoundsUp20 ==
    {21, 27, 31, 35, 37, 47, 49, 55, 57, 59, 67, 69, 75, 77, 79, 83, 89, 93,
     95, 99, 103, 109, 113, 115, 119, 123, 129, 133, 135, 139, 143, 149, 153,
     155, 159, 161, 163, 171, 173, 175, 181, 183, 191, 193, 195}

\* round(s / n, 1) in tenths, for 1 <= s/n <= 10
Round1(s, n) ==
    LET fl == (10 * s) \div n
        rem2 == 2 * ((10 * s) % n)
    IN  IF rem2 < n THEN fl
        ELSE IF rem2 > n THEN fl + 1
        ELSE IF (20 * s) \div n \in RoundsUp20 THEN fl + 1 ELSE fl

RECURSIVE Gcd(_, _)
Gcd(a, b) == IF b = 0 THEN a ELSE Gcd(b, a % b)

(* recent_avg > older_avg + 0.5 and recent_avg < older_avg - 0.5 are computed *)
(* on binary64 values.  When the two averages differ by exactly 0.5 the       *)
(* rounding of the quotients decides: for these pairs of averages             *)
(* <<recent numerator, denominator, older numerator, denominator>> (in lowest *)
(* terms, averages of at most 10 ratings each in 1..10) the comparison holds  *)
(* although the exact difference is 0.5; for every other pair it does not.    *)
FloatAbove == {<<7, 3, 11, 6>>, <<25, 3, 47, 6>>, <<25, 6, 11, 3>>}

FloatBelow ==
    {<<11, 3, 25, 6>>, <<11, 6, 7, 3>>, <<47, 6, 25, 3>>, <<39, 5, 83, 10>>,
     <<17, 10, 11, 5>>, <<39, 10, 22, 5>>}

Reduced(sr, mid, so, o) ==
    <<sr \div Gcd(sr, mid), mid \div Gcd(sr, mid),
      so \div Gcd(so, o), o \div Gcd(so, o)>>

\* sr / mid > so / o + 0.5
RecentAbove(sr, mid, so, o) ==
    \/ 2 * sr * o > 2 * so * mid + mid * o
    \/ /\ 2 * sr * o = 2 * so * mid + mid * o
       /\ Reduced(sr, mid, so, o) \in FloatAbove

\* sr / mid < so / o - 0.5
RecentBelow(sr, mid, so, o) ==
    \/ 2 * sr * o < 2 * so * mid - mid * o
    \/ /\ 2 * sr * o = 2 * so * mid - mid * o
       /\ Reduced(sr, mid, so, o) \in FloatBelow

----------------------------------------------------------------------------
(* impulse_history_get: the analysis of the fetched rows (lines 207-274) *)

\* mutant: the whole timestamp instead of its date part
DateStr_WithTime(a) == a.assessed_at

\* assessment["assessed_at"][:10]
DateStr(a) == a.assessed_at \div TicksPerDay

\* keys of a dict filled while walking rows: in order of first appearance
RECURSIVE KeysInOrder(_)
KeysInOrder(rows) ==
    IF rows = <<>> THEN <<>>
    ELSE LET init == KeysInOrder(SubSeq(rows, 1, Len(rows) - 1))
             k == rows[Len(rows)].indicator_key
         IN  IF k \in Range(init) THEN init ELSE Append(init, k)

\* [a["rating"] for a in rows if a["rating"] is not None]
RECURSIVE RatingsOf(_)
RatingsOf(rows) ==
    IF rows = <<>> THEN <<>>
    ELSE IF Head(rows).rating = None THEN RatingsOf(Tail(rows))
    ELSE <<Head(rows).rating>> \o RatingsOf(Tail(rows))

RowsOfKey(rows, key) == SelectSeq(rows, LAMBDA a : a.indicator_key = key)

RowsOfDate(rows, d) == SelectSeq(rows, LAMBDA a : DateStr(a) = d)

\* mutant: only the ratings of the latest date
indicator_values_LatestDate(rows, key) ==
    RatingsOf(SelectSeq(rows, LAMBDA a :
        /\ a.indicator_key = key
        /\ \A i \in 1..Len(rows) : rows[i].assessed_at \div TicksPerDay
                                        <= a.assessed_at \div TicksPerDay))

\* indicator_values[key]
indicator_values(rows, key) == RatingsOf(RowsOfKey(rows, key))

\* mutant: every key, a key without a value with an average of 0
indicator_averages_AllKeys(rows) ==
    [key \in Range(KeysInOrder(rows)) |->
        IF indicator_values(rows, key) = <<>> THEN 0
        ELSE Round1(Sum(indicator_values(rows, key)), Len(indicator_values(rows, key)))]

\* indicator_averages: only the keys with a non-empty value list
indicator_averages(rows) ==
    [key \in {k \in Range(KeysInOrder(rows)) : indicator_values(rows, k) # <<>>} |->
        Round1(Sum(indicator_values(rows, key)), Len(indicator_values(rows, key)))]

\* mutant: avg <= 6
IsWeak_AtMost(values) == values # <<>> /\ Sum(values) <= WeakThreshold * Len(values)

\* avg < 6 on the unrounded average
IsWeak(values) == values # <<>> /\ Sum(values) < WeakThreshold * Len(values)

\* mutant: the average cut to one decimal instead of rounded
WeakEntry_Truncated(rows, key) ==
    [key |-> key,
     name |-> key,
     rating |-> (10 * Sum(RatingsOf(RowsOfKey(rows, key))))
                   \div Len(RatingsOf(RowsOfKey(rows, key)))]

WeakEntry(rows, key) ==
    [key |-> key,
     name |-> IF get_indicator_by_key(key) # {}
              THEN CHOOSE k \in get_indicator_by_key(key) : TRUE ELSE key,
     rating |-> Round1(Sum(indicator_values(rows, key)), Len(indicator_values(rows, key)))]

\* the weak entries in the order the loop over indicator_values.items() appends them
RECURSIVE WeakOf(_, _)
WeakOf(rows, keys) ==
    IF keys = <<>> THEN <<>>
    ELSE IF IsWeak(indicator_values(rows, Head(keys)))
         THEN <<WeakEntry(rows, Head(keys))>> \o WeakOf(rows, Tail(keys))
         ELSE WeakOf(rows, Tail(keys))

\* list.sort(key=lambda x: x["rating"]): stable, ascending
RECURSIVE InsertByRating(_, _)
InsertByRating(sorted, e) ==
    IF sorted = <<>> THEN <<e>>
    ELSE IF sorted[Len(sorted)].rating <= e.rating THEN Append(sorted, e)
    ELSE Append(InsertByRating(SubSeq(sorted, 1, Len(sorted) - 1), e), sorted[Len(sorted)])

RECURSIVE SortByRating(_)
SortByRating(s) ==
    IF s = <<>> THEN <<>>
    ELSE InsertByRating(SortByRating(SubSeq(s, 1, Len(s) - 1)), s[Len(s)])

\* mutant: the sort left out
weak_indicators_Unsorted(rows) == Prefix(WeakOf(rows, KeysInOrder(rows)), MaxWeak)

weak_indicators(rows) == Prefix(SortByRating(WeakOf(rows, KeysInOrder(rows))), MaxWeak)

\* mutant: the mean of the per-indicator averages
overall_average_OfIndicatorMeans(rows) ==
    IF RatingsOf(rows) = <<>> THEN None
    ELSE Round1(SumOver(indicator_averages(rows), DOMAIN indicator_averages(rows)),
                10 * Cardinality(DOMAIN indicator_averages(rows)))

\* round(overall_avg, 1) if overall_avg else None
overall_average(rows) ==
    IF RatingsOf(rows) = <<>> \/ Sum(RatingsOf(rows)) = 0 THEN None
    ELSE Round1(Sum(RatingsOf(rows)), Len(RatingsOf(rows)))

\* mutant: the halves compared from 2 ratings on
Trend_NoMinimum(all_ratings) ==
    IF Len(all_ratings) >= 2
    THEN LET mid == Len(all_ratings) \div 2
             sr == Sum(Prefix(all_ratings, mid))
             so == Sum(Suffix(all_ratings, mid))
             o == Len(all_ratings) - mid
         IN  IF RecentAbove(sr, mid, so, o) THEN "up"
             ELSE IF RecentBelow(sr, mid, so, o) THEN "down"
             ELSE "stable"
    ELSE "stable"

\* lines 248-257
Trend(all_ratings) ==
    IF Len(all_ratings) >= MinTrendRatings
    THEN LET mid == Len(all_ratings) \div 2
             sr == Sum(Prefix(all_ratings, mid))
             so == Sum(Suffix(all_ratings, mid))
             o == Len(all_ratings) - mid
         IN  IF RecentAbove(sr, mid, so, o) THEN "up"
             ELSE IF RecentBelow(sr, mid, so, o) THEN "down"
             ELSE "stable"
    ELSE "stable"

\* lines 248-257 on ratings with one decimal, counted in tenths
TrendOfTenths(all_ratings) ==
    IF Len(all_ratings) >= MinTrendRatings
    THEN LET mid == Len(all_ratings) \div 2
             sr == Sum(Prefix(all_ratings, mid))
             so == Sum(Suffix(all_ratings, mid))
             o == Len(all_ratings) - mid
         IN  IF RecentAbove(sr, 10 * mid, so, 10 * o) THEN "up"
             ELSE IF RecentBelow(sr, 10 * mid, so, 10 * o) THEN "down"
             ELSE "stable"
    ELSE "stable"

\* mutant: a series handed on oldest first, as it was generated
MostRecentFirst_Chronological(series) == series

\* ORDER BY assessed_at DESC of a series generated oldest first
MostRecentFirst(series) == [j \in 1..Len(series) |-> series[Len(series) + 1 - j]]

\* sorted(dates, reverse=True)
RECURSIVE SortedDesc(_)
SortedDesc(S) ==
    IF S = {} THEN <<>>
    ELSE LET m == CHOOSE x \in S : \A y \in S : y <= x
         IN  <<m>> \o SortedDesc(S \ {m})

\* {a["indicator_key"]: a["rating"] for a in rows}: a later row replaces an earlier one
RatingsMap(rows) ==
    [key \in {rows[i].indicator_key : i \in 1..Len(rows)} |->
        LET last == CHOOSE i \in 1..Len(rows) :
                        /\ rows[i].indicator_key = key
                        /\ \A j \in (i + 1)..Len(rows) : rows[j].indicator_key # key
        IN  rows[last].rating]

ImpulseDate(rows, d) ==
    LET impulse_assessments == RowsOfDate(rows, d)
        ratings == RatingsOf(impulse_assessments)
    IN  [date |-> d,
         assessment_count |-> Len(impulse_assessments),
         average_rating |-> IF ratings = <<>> \/ Sum(ratings) = 0 THEN None
                            ELSE Round1(Sum(ratings), Len(ratings)),
         ratings |-> RatingsMap(impulse_assessments)]

\* mutant: every date, without the cut after ten
impulse_dates_Unlimited(rows) ==
    LET dates == SortedDesc({DateStr(rows[i]) : i \in 1..Len(rows)})
    IN  [i \in 1..Len(dates) |-> ImpulseDate(rows, dates[i])]

impulse_dates(rows) ==
    LET dates == Prefix(SortedDesc({DateStr(rows[i]) : i \in 1..Len(rows)}), MaxImpulseDates)
    IN  [i \in 1..Len(dates) |-> ImpulseDate(rows, dates[i])]

\* the JSON of lines 276-288
Summary(group_id, rows) ==
    [op |-> "impulse_history_get", status |-> "ok", group_id |-> group_id,
     total_assessments |-> Len(rows),
     impulse_dates |-> impulse_dates(rows),
     average_rating |-> overall_average(rows),
     trend |-> Trend(RatingsOf(rows)),
     weak_indicators |-> weak_indicators(rows),
     indicator_averages |-> indicator_averages(rows)]

\* the JSON of lines 194-205
EmptySummary(group_id) ==
    [op |-> "impulse_history_get", status |-> "ok", group_id |-> group_id,
     total_assessments |-> 0, impulse_dates |-> <<>>, average_rating |-> None,
     trend |-> "stable", weak_indicators |-> <<>>, indicator_averages |-> <<>>]

\* mutant: an average of 0 for a group without assessments
TrendSummary_ZeroAverage(group_id, rows) ==
    IF rows = <<>>
    THEN [EmptySummary(group_id) EXCEPT !.average_rating = 0]
    ELSE Summary(group_id, rows)

\* the JSON impulse_history_get returns for the rows it fetched
TrendSummary(group_id, rows) ==
    IF rows = <<>> THEN EmptySummary(group_id) ELSE Summary(group_id, rows)

----------------------------------------------------------------------------
(* The table and the clock *)

\* all orderings of a set
RECURSIVE PermsOf(_)
PermsOf(S) ==
    IF S = {} THEN {<<>>}
    ELSE UNION {{<<x>> \o p : p \in PermsOf(S \ {x})} : x \in S}

\* SELECT ... ORDER BY assessed_at DESC: the index sequences the query may
\* return; rows with equal assessed_at come in an order SQL leaves open
RECURSIVE ReadOrderIdx(_, _)
ReadOrderIdx(table, S) ==
    IF S = {} THEN {<<>>}
    ELSE LET m == CHOOSE i \in S : \A j \in S : table[j].assessed_at <= table[i].assessed_at
             top == {i \in S : table[i].assessed_at = table[m].assessed_at}
         IN  {p \o q : p \in PermsOf(top), q \in ReadOrderIdx(table, S \ top)}

ReadOrders(table) ==
    {[i \in 1..Len(table) |-> table[p[i]]] : p \in ReadOrderIdx(table, 1..Len(table))}

\* datetime.utcnow(): an instant after the last one read, later the same day
\* or at the start of the next day
Later(t) == {t + 1, (t \div TicksPerDay + 1) * TicksPerDay}

valid_keys == Range(get_indicators_for_group_type(GroupType))

NewRow(indicator_key, rating, notes, assessed_at) ==
    [id |-> next_id + 1, indicator_key |-> indicator_key, rating |-> rating,
     notes |-> notes, assessed_at |-> assessed_at]

Error(op, detail) == [op |-> op, status |-> "error", detail |-> detail]

\* a handler that returns without writing and without fetching the history
Rejected(op, detail) ==
    /\ response' = Error(op, detail)
    /\ assessments' = <<>>
    /\ UNCHANGED <<stakeholder_assessments, clock, next_id>>

----------------------------------------------------------------------------
(* MCP tools (backend/mcp_server/tools/assessments.py) *)

\* mutant: the rating is not validated
assessment_create_Unvalidated(group_id, indicator_key, rating, notes, now) ==
    IF ~group_exists(group_id)
    THEN Rejected("assessment_create", "Stakeholder group not found")
    ELSE IF indicator_key \notin valid_keys
    THEN Rejected("assessment_create", "Invalid indicator_key")
    ELSE /\ stakeholder_assessments' =
                Append(stakeholder_assessments, NewRow(indicator_key, rating, notes, now))
         /\ next_id' = next_id + 1
         /\ clock' = now
         /\ assessments' = <<>>
         /\ response' = [op |-> "assessment_create", status |-> "ok",
                         assessment |-> NewRow(indicator_key, rating, notes, now)]

assessment_create(group_id, indicator_key, rating, notes, now) ==
    IF ~(1 <= rating /\ rating <= 10)
    THEN Rejected("assessment_create", "Rating must be between 1 and 10")
    ELSE IF ~group_exists(group_id)
    THEN Rejected("assessment_create", "Stakeholder group not found")
    ELSE IF indicator_key \notin valid_keys
    THEN Rejected("assessment_create", "Invalid indicator_key")
    ELSE /\ stakeholder_assessments' =
                Append(stakeholder_assessments, NewRow(indicator_key, rating, notes, now))
         /\ next_id' = next_id + 1
         /\ clock' = now
         /\ assessments' = <<>>
         /\ response' = [op |-> "assessment_create", status |-> "ok",
                         assessment |-> NewRow(indicator_key, rating, notes, now)]

\* the loop of assessment_batch_create over ratings.items(): the rows it
\* inserts, given the number of ids handed out before it
RECURSIVE BatchRows(_, _, _)
BatchRows(ratings, now, ids) ==
    IF ratings = <<>> THEN <<>>
    ELSE LET indicator_key == Head(ratings)[1]
             rating == Head(ratings)[2]
         IN  IF indicator_key \notin valid_keys
             THEN BatchRows(Tail(ratings), now, ids)
             ELSE IF ~(1 <= rating /\ rating <= 10)
             THEN BatchRows(Tail(ratings), now, ids)
             ELSE <<[id |-> ids + 1, indicator_key |-> indicator_key, rating |-> rating,
                     notes |-> NoNotes, assessed_at |-> now]>>
                  \o BatchRows(Tail(ratings), now, ids + 1)

assessment_batch_create(group_id, ratings, now) ==
    IF ~group_exists(group_id)
    THEN Rejected("assessment_batch_create", "Stakeholder group not found")
    ELSE LET created == BatchRows(ratings, now, next_id)
         IN  /\ stakeholder_assessments' = stakeholder_assessments \o created
             /\ next_id' = next_id + Len(created)
             /\ clock' = now
             /\ assessments' = <<>>
             /\ response' = [op |-> "assessment_batch_create", status |-> "ok",
                             created_count |-> Len(created), assessments |-> created]

assessment_delete(assessment_id) ==
    IF \A i \in 1..Len(stakeholder_assessments) :
            stakeholder_assessments[i].id # assessment_id
    THEN Rejected("assessment_delete", "Assessment not found")
    ELSE /\ stakeholder_assessments' =
                SelectSeq(stakeholder_assessments, LAMBDA a : a.id # assessment_id)
         /\ assessments' = <<>>
         /\ response' = [op |-> "assessment_delete", status |-> "ok",
                         assessment_id |-> assessment_id]
         /\ UNCHANGED <<clock, next_id>>

impulse_history_get(group_id) ==
    IF ~group_exists(group_id)
    THEN Rejected("impulse_history_get", "Stakeholder group not found")
    ELSE \E rows \in ReadOrders(stakeholder_assessments) :
            /\ assessments' = rows
            /\ response' = TrendSummary(group_id, rows)
            /\ UNCHANGED <<stakeholder_assessments, clock, next_id>>

----------------------------------------------------------------------------
(* HTTP router (backend/app/routers/stakeholders.py) *)

Unparsable == -2     \* an assessed_at string datetime.fromisoformat rejects

\* an assessed_at string that carries a UTC offset, "...T23:30:00-05:00" on
\* the eve of day -1: its first ten characters name day -2, UTC has day -1
WithOffset == -3

\* DATE(assessed_at) of SQLite: the date in UTC
SqlDate(assessed_at) ==
    IF assessed_at = WithOffset THEN assessed_at \div TicksPerDay + 1
    ELSE assessed_at \div TicksPerDay

\* the database a handler works on: the table, the clock and the ids handed out
Db == [stakeholder_assessments |-> stakeholder_assessments, clock |-> clock,
       next_id |-> next_id]

\* mutant: the rows of the date, whatever their indicator
SameKeyAndDateIn_AnyKey(table, indicator_key, assessed_at) ==
    {i \in 1..Len(table) :
        SqlDate(table[i].assessed_at) = assessed_at \div TicksPerDay}

\* rows matching: indicator_key = ? AND DATE(assessed_at) = ?, the date given
\* being assessed_at[:10]
SameKeyAndDateIn(table, indicator_key, assessed_at) ==
    {i \in 1..Len(table) :
        /\ table[i].indicator_key = indicator_key
        /\ SqlDate(table[i].assessed_at) = assessed_at \div TicksPerDay}

SameKeyAndDate(indicator_key, assessed_at) ==
    SameKeyAndDateIn(stakeholder_assessments, indicator_key, assessed_at)

\* a call that raises HTTPException: the database as it was, read the clock
\* reached before the exception
Raised(db, detail, read) ==
    [db |-> [db EXCEPT !.clock = read],
     response |-> Error("add_stakeholder_assessment", detail)]

\* what a call of add_stakeholder_assessment on db may leave and return.
\* data.assessed_at given: the parsed timestamp, the clock is not read;
\* otherwise datetime.utcnow().  fetchone() takes any of the matching rows.
AddOutcomes(db, group_id, indicator_key, rating, notes, given_at, now) ==
    LET op == "add_stakeholder_assessment"
        assessed_at == IF given_at = None THEN now ELSE given_at
        read == IF given_at = None THEN now ELSE db.clock
        table == db.stakeholder_assessments
        new == [id |-> db.next_id + 1, indicator_key |-> indicator_key,
                rating |-> rating, notes |-> notes, assessed_at |-> assessed_at]
    IN  IF rating < 1 \/ rating > 10
        THEN {Raised(db, "Rating must be between 1 and 10", db.clock)}
        ELSE IF get_indicator_by_key(indicator_key) = {}
        THEN {Raised(db, "Invalid indicator_key", db.clock)}
        ELSE IF given_at = Unparsable
        THEN {Raised(db, "Invalid assessed_at format", db.clock)}
        ELSE IF ~group_exists(group_id)
        THEN {Raised(db, "Stakeholder group not found", read)}
        ELSE IF indicator_key \notin valid_keys
        THEN {Raised(db, "Indicator is not valid for group type", read)}
        ELSE IF SameKeyAndDateIn(table, indicator_key, assessed_at) # {}
        THEN {[db |-> [db EXCEPT
                          !.stakeholder_assessments =
                              [table EXCEPT ![existing].rating = rating,
                                            ![existing].notes = notes,
                                            ![existing].assessed_at = assessed_at],
                          !.clock = read],
               response |-> [op |-> op, status |-> "ok",
                             assessment |-> [id |-> table[existing].id,
                                             indicator_key |-> indicator_key,
                                             rating |-> rating, notes |-> notes,
                                             assessed_at |-> assessed_at]]] :
                existing \in SameKeyAndDateIn(table, indicator_key, assessed_at)}
        ELSE {[db |-> [stakeholder_assessments |-> Append(table, new),
                       clock |-> read,
                       next_id |-> db.next_id + 1],
               response |-> [op |-> op, status |-> "ok", assessment |-> new]]}

add_stakeholder_assessment(group_id, indicator_key, rating, notes, given_at, now) ==
    \E o \in AddOutcomes(Db, group_id, indicator_key, rating, notes, given_at, now) :
        /\ stakeholder_assessments' = o.db.stakeholder_assessments
        /\ clock' = o.db.clock
        /\ next_id' = o.db.next_id
        /\ assessments' = <<>>
        /\ response' = o.response

\* the loop of batch_add_assessments over the submitted assessments, each
\* handed to add_stakeholder_assessment on the database the one before left
RECURSIVE BatchOutcomes(_, _, _)
BatchOutcomes(db, group_id, submitted) ==
    IF submitted = <<>>
    THEN {[db |-> db, results |-> <<>>, errors |-> <<>>]}
    ELSE UNION {
           {[db |-> rest.db,
             results |-> (IF o.response.status = "ok"
                          THEN <<o.response.assessment>> ELSE <<>>) \o rest.results,
             errors |-> (IF o.response.status = "ok" THEN <<>>
                         ELSE <<[indicator_key |-> Head(submitted).indicator_key,
                                 error |-> o.response.detail]>>) \o rest.errors] :
              rest \in BatchOutcomes(o.db, group_id, Tail(submitted))} :
           o \in UNION {AddOutcomes(db, group_id, Head(submitted).indicator_key,
                                    Head(submitted).rating, Head(submitted).notes,
                                    Head(submitted).assessed_at, now) :
                           now \in Later(db.clock)}}

\* mutant: the insight is generated as soon as one assessment was stored
TriggersInsight_OnAnySuccess(results, errors) == Len(results) > 0

\* if len(results) > 0 and len(errors) == 0
TriggersInsight(results, errors) == Len(results) > 0 /\ Len(errors) = 0

\* created_task: asyncio.create_task(_generate_impulse_insight(...)) was called
batch_add_assessments(group_id, submitted) ==
    \E b \in BatchOutcomes(Db, group_id, submitted) :
        /\ stakeholder_assessments' = b.db.stakeholder_assessments
        /\ clock' = b.db.clock
        /\ next_id' = b.db.next_id
        /\ assessments' = <<>>
        /\ response' = [op |-> "batch_add_assessments", status |-> "ok",
                        group_id |-> group_id,
                        submitted |-> submitted,
                        success_count |-> Len(b.results),
                        error_count |-> Len(b.errors),
                        results |-> b.results,
                        errors |-> b.errors,
                        created_task |-> /\ TriggersInsight(b.results, b.errors)
                                         /\ group_exists(group_id)]

delete_stakeholder_assessment(assessment_id) ==
    IF \A i \in 1..Len(stakeholder_assessments) :
            stakeholder_assessments[i].id # assessment_id
    THEN Rejected("delete_stakeholder_assessment", "Assessment not found")
    ELSE /\ stakeholder_assessments' =
                SelectSeq(stakeholder_assessments, LAMBDA a : a.id # assessment_id)
         /\ assessments' = <<>>
         /\ response' = [op |-> "delete_stakeholder_assessment", status |-> "ok",
                         assessment_id |-> assessment_id]
         /\ UNCHANGED <<clock, next_id>>

\* the dates in the order the grouping loop first meets them
RECURSIVE DatesInOrder(_)
DatesInOrder(rows) ==
    IF rows = <<>> THEN <<>>
    ELSE LET init == DatesInOrder(SubSeq(rows, 1, Len(rows) - 1))
             d == DateStr(rows[Len(rows)])
         IN  IF d \in Range(init) THEN init ELSE Append(init, d)

\* impulses_by_date[date]["notes"]: set only by rows whose notes are not empty
NotesMap(rows) ==
    [key \in {rows[i].indicator_key : i \in {j \in 1..Len(rows) : rows[j].notes # NoNotes}} |->
        LET last == CHOOSE i \in 1..Len(rows) :
                        /\ rows[i].indicator_key = key /\ rows[i].notes # NoNotes
                        /\ \A j \in (i + 1)..Len(rows) :
                              ~(rows[j].indicator_key = key /\ rows[j].notes # NoNotes)
        IN  rows[last].notes]

ImpulseEntry(rows, d) ==
    LET ratings == RatingsMap(RowsOfDate(rows, d))
    IN  [date |-> d,
         average_rating |-> IF DOMAIN ratings = {} THEN 0
                            ELSE Round1(SumOver(ratings, DOMAIN ratings),
                                        Cardinality(DOMAIN ratings)),
         ratings |-> ratings,
         notes |-> NotesMap(RowsOfDate(rows, d)),
         source |-> "manual"]

\* list.sort(key=lambda x: x.date, reverse=True): stable, descending
RECURSIVE InsertByDateDesc(_, _)
InsertByDateDesc(sorted, e) ==
    IF sorted = <<>> THEN <<e>>
    ELSE IF sorted[Len(sorted)].date >= e.date THEN Append(sorted, e)
    ELSE Append(InsertByDateDesc(SubSeq(sorted, 1, Len(sorted) - 1), e), sorted[Len(sorted)])

\* mutant: the sort without reverse=True
RECURSIVE SortByDateDesc_Ascending(_)
SortByDateDesc_Ascending(s) ==
    IF s = <<>> THEN <<>>
    ELSE LET m == CHOOSE i \in 1..Len(s) : \A j \in 1..Len(s) : s[i].date <= s[j].date
         IN  <<s[m]>> \o SortByDateDesc_Ascending(
                            [k \in 1..(Len(s) - 1) |-> IF k < m THEN s[k] ELSE s[k + 1]])

RECURSIVE SortByDateDesc(_)
SortByDateDesc(s) ==
    IF s = <<>> THEN <<>>
    ELSE InsertByDateDesc(SortByDateDesc(SubSeq(s, 1, Len(s) - 1)), s[Len(s)])

\* lines 558-595: group, average, sort, limit
Impulses(rows, limit) ==
    LET dates == DatesInOrder(rows)
        impulses == [i \in 1..Len(dates) |-> ImpulseEntry(rows, dates[i])]
    IN  Prefix(SortByDateDesc(impulses), limit)

get_impulse_history(group_id, limit) ==
    IF ~group_exists(group_id)
    THEN Rejected("get_impulse_history", "Stakeholder group not found")
    ELSE \E rows \in ReadOrders(stakeholder_assessments) :
            /\ assessments' = rows
            /\ response' = [op |-> "get_impulse_history", status |-> "ok",
                            group_id |-> group_id, limit |-> limit,
                            impulses |-> Impulses(rows, limit)]
            /\ UNCHANGED <<stakeholder_assessments, clock, next_id>>

----------------------------------------------------------------------------
(* RatingPatternGenerator (backend/app/generators/rating_patterns.py).     *)
(* Ratings and offsets are numbers of tenths.  progress = i / max(1, n-1)  *)
(* is kept as the pair i, Steps(n); a shape value is a pair                *)
(* <<numerator, denominator>> of tenths.                                   *)

GROUP_BASELINES ==
    [g \in {"fuehrungskraefte", "multiplikatoren", "mitarbeitende"} |->
        CASE g = "fuehrungskraefte" -> 65
          [] g = "multiplikatoren" -> 60
          [] g = "mitarbeitende" -> 55]

INDICATOR_MODIFIERS ==
    [k \in Range(CORE_INDICATORS) \cup Range(FUEHRUNGSKRAEFTE_INDICATORS) |->
        CASE k = "orientierung_sinn" -> 0
          [] k = "psychologische_sicherheit" -> -5
          [] k = "empowerment" -> -3
          [] k = "partizipation" -> 0
          [] k = "wertschaetzung" -> 2
          [] k = "ressourcenfreigabe" -> -4
          [] k = "aktive_kommunikation" -> 1
          [] k = "widerstandsmanagement" -> -5
          [] k = "vorbildfunktion" -> 3]

\* max(1.0, min(10.0, x)) on tenths
Clamp(x) == IF x < 10 THEN 10 ELSE IF x > 100 THEN 100 ELSE x

get_base_rating(group_type, indicator_key) ==
    LET base == IF group_type \in DOMAIN GROUP_BASELINES
                THEN GROUP_BASELINES[group_type] ELSE 60
        modifier == IF indicator_key \in DOMAIN INDICATOR_MODIFIERS
                    THEN INDICATOR_MODIFIERS[indicator_key] ELSE 0
    IN  Clamp(base + modifier)

\* mutant: progress = i / n
Steps_Count(n) == n

\* max(1, n - 1)
Steps(n) == IF n - 1 > 1 THEN n - 1 ELSE 1

(* Unit of the tables below: 1/TableScale.  TanhCurve[m][i + 1] is         *)
(* 0.5 * (1 + tanh((i/m - 0.5) * 3)), Wave1[m][i + 1] is sin(i/m * 4 * pi) *)
(* and Wave2[m][i + 1] is sin(i/m * 2.5 * pi + 1) * 0.5, each to the       *)
(* nearest unit, for m = max(1, n - 1) up to 5.                            *)
TableScale == 10000

TanhCurve ==
    <<<<474, 9526>>,
      <<474, 5000, 9526>>,
      <<474, 2689, 7311, 9526>>,
      <<474, 1824, 5000, 8176, 9526>>,
      <<474, 1419, 3543, 6457, 8581, 9526>>>>

Wave1 ==
    <<<<0, 0>>,
      <<0, 0, 0>>,
      <<0, -8660, 8660, 0>>,
      <<0, 0, 0, 0, 0>>,
      <<0, 5878, -9511, 9511, -5878, 0>>>>

Wave2 ==
    <<<<4207, 2702>>,
      <<4207, -4885, 2702>>,
      <<4207, -2293, -236, 2702>>,
      <<4207, 886, -4885, 2853, 2702>>,
      <<4207, 2702, -4207, -2702, 4207, 2702>>>>

\* mutant: the dip falls by 2.0 instead of 2.5
honeymoon_dip_recovery_ShallowDip(n, base) ==
    [j \in 1..n |->
        LET i == j - 1
            m == Steps(n)
        IN  IF 20 * i < 3 * m
            THEN <<(base + 15) * 3 * m - 100 * i, 3 * m>>
            ELSE IF 20 * i < 9 * m
            THEN <<(2 * base + 40) * 3 * m - 400 * i, 6 * m>>
            ELSE <<(base - 15) * 11 * m - 180 * m + 400 * i, 11 * m>>]

\* progress < 0.15, progress < 0.45: the three phases
honeymoon_dip_recovery(n, base) ==
    [j \in 1..n |->
        LET i == j - 1
            m == Steps(n)
        IN  IF 20 * i < 3 * m
            THEN <<(base + 15) * 3 * m - 100 * i, 3 * m>>
            ELSE IF 20 * i < 9 * m
            THEN <<(2 * base + 45) * 3 * m - 500 * i, 6 * m>>
            ELSE <<(base - 15) * 11 * m - 180 * m + 400 * i, 11 * m>>]

\* (base - 0.5) + curved * 2.0
steady_improvement(n, base) ==
    [j \in 1..n |->
        <<(base - 5) * TableScale + 20 * TanhCurve[Steps(n)][j], TableScale>>]

\* progress < 0.6: the struggle phase, then the climb
struggle_then_improve(n, base) ==
    [j \in 1..n |->
        LET i == j - 1
            m == Steps(n)
        IN  IF 5 * i < 3 * m
            THEN <<(base - 15) * m + 5 * i, m>>
            ELSE <<(2 * base - 95) * m + 125 * i, 2 * m>>]

\* base + wave1 + wave2
volatile(n, base) ==
    [j \in 1..n |->
        <<base * TableScale + 10 * (Wave1[Steps(n)][j] + Wave2[Steps(n)][j]),
          TableScale>>]

\* base + 0.5 - progress * progress * 2.5
declining(n, base) ==
    [j \in 1..n |->
        LET i == j - 1
            m == Steps(n)
        IN  <<(base + 5) * m * m - 25 * i * i, m * m>>]

(* Noise is counted in thousandths of a rating.  round(x, 1) of a binary64 *)
(* x that lies halfway between two tenths goes the way the rounding errors *)
(* of x decide.  For the calls of this model a sum v + noise lies halfway  *)
(* only for struggle_then_improve at progress 0.5, where                   *)
(* v = base - 1.5 + 0.25, with a noise of whole tenths; it is rounded up   *)
(* for these <<base, noise>> and down for the others.                      *)
StruggleMidRoundsUp ==
    {<<50, -1000>>, <<50, -300>>, <<50, 0>>, <<52, -1000>>, <<52, -300>>,
     <<52, 0>>, <<55, -300>>, <<57, -1000>>, <<57, -300>>, <<57, 0>>,
     <<60, -1000>>, <<60, -300>>, <<60, 0>>, <<62, -1000>>, <<62, -300>>,
     <<62, 0>>, <<63, -300>>, <<65, -300>>, <<67, -1000>>, <<67, -300>>,
     <<67, 0>>}

\* mutant: the noisy value rounded without being clamped
NoisyValue_Unclamped(v, noise, base) ==
    LET total == 100 * v[1] + noise * v[2]
        den == 100 * v[2]
    IN  IF 2 * (total % den) < den THEN total \div den
        ELSE IF 2 * (total % den) > den THEN total \div den + 1
        ELSE IF <<base, noise>> \in StruggleMidRoundsUp THEN total \div den + 1
        ELSE total \div den

\* round(max(1.0, min(10.0, v + noise)), 1)
NoisyValue(v, noise, base) ==
    LET total == 100 * v[1] + noise * v[2]
        den == 100 * v[2]
    IN  IF total < 10 * den THEN 10
        ELSE IF total > 100 * den THEN 100
        ELSE IF 2 * (total % den) < den THEN total \div den
        ELSE IF 2 * (total % den) > den THEN total \div den + 1
        ELSE IF <<base, noise>> \in StruggleMidRoundsUp THEN total \div den + 1
        ELSE total \div den

\* mutant: an unrecognized pattern_type treated as steady_improvement
generate_pattern_DefaultSteady(pattern_type, num_points, group_type, indicator_key, noise) ==
    LET base == get_base_rating(group_type, indicator_key)
        values ==
            CASE pattern_type = "honeymoon_dip_recovery" ->
                    honeymoon_dip_recovery(num_points, base)
              [] pattern_type = "struggle_then_improve" ->
                    struggle_then_improve(num_points, base)
              [] pattern_type = "volatile" -> volatile(num_points, base)
              [] pattern_type = "declining" -> declining(num_points, base)
              [] OTHER -> steady_improvement(num_points, base)
    IN  [j \in 1..num_points |-> NoisyValue(values[j], noise[j], base)]

\* noise[j] is what random.gauss(0, noise_level) returned for the j-th value
generate_pattern(pattern_type, num_points, group_type, indicator_key, noise) ==
    LET base == get_base_rating(group_type, indicator_key)
        values ==
            CASE pattern_type = "honeymoon_dip_recovery" ->
                    honeymoon_dip_recovery(num_points, base)
              [] pattern_type = "steady_improvement" ->
                    steady_improvement(num_points, base)
              [] pattern_type = "struggle_then_improve" ->
                    struggle_then_improve(num_points, base)
              [] pattern_type = "volatile" -> volatile(num_points, base)
              [] pattern_type = "declining" -> declining(num_points, base)
              [] OTHER -> [j \in 1..num_points |-> <<base, 1>>]
    IN  [j \in 1..num_points |-> NoisyValue(values[j], noise[j], base)]

\* no call of the generator
NoCall ==
    [pattern_type |-> "", num_points |-> 0, group_type |-> "", indicator_key |-> "",
     noise_level |-> 0, returned |-> FALSE, ratings |-> <<>>]

\* mutant: the noise level handed on as it came out
indicator_noise_Unfloored(noise_level, uniform) == noise_level + uniform

\* max(0.1, noise_level + random.uniform(-0.1, 0.1)), in tenths
indicator_noise(noise_level, uniform) ==
    IF noise_level + uniform > 1 THEN noise_level + uniform ELSE 1

\* noise[key][j] is what random.gauss returned for the j-th value of the key
generate_assessment_history(pattern_type, num_impulses, group_type, indicator_keys, noise) ==
    [key \in Range(indicator_keys) |->
        generate_pattern(pattern_type, num_impulses, group_type, key, noise[key])]

\* no call of generate_assessment_history
NoHistory ==
    [pattern_type |-> "", num_impulses |-> 0, group_type |-> "", indicator_keys |-> <<>>,
     noise_level |-> 0, returned |-> FALSE, sigma |-> <<>>, result |-> <<>>]

----------------------------------------------------------------------------
(* The seeding factory (backend/app/factories/stakeholder.py, base.py) *)

\* int(round(x)) of a rating with one decimal, in tenths: a half goes to the
\* even integer
IntRound(tenths) ==
    LET fl == tenths \div 10
        r == tenths % 10
    IN  IF r < 5 THEN fl
        ELSE IF r > 5 THEN fl + 1
        ELSE IF fl % 2 = 0 THEN fl ELSE fl + 1

\* datetime.utcnow() - timedelta(days=days_ago)
get_base_date(now, days_ago) == now - days_ago * TicksPerDay

\* base_date + timedelta(days=days_offset)
generate_timestamp_from_base(base_date, days) == base_date + days * TicksPerDay

(* int(i * days_between) with days_between = start_days_ago /              *)
(* (num_impulses - 1) in binary64: the whole days of the exact product,    *)
(* except for the <<i, start_days_ago, num_impulses>> where the binary64   *)
(* product falls just below a whole number (7 * (61 / 7) < 61).            *)
ProductFallsShort == {<<7, 61, 8>>}

days_offset(i, start_days_ago, num_impulses) ==
    IF num_impulses > 1
    THEN IF <<i, start_days_ago, num_impulses>> \in ProductFallsShort
         THEN (i * start_days_ago) \div (num_impulses - 1) - 1
         ELSE (i * start_days_ago) \div (num_impulses - 1)
    ELSE 0

\* one of ASSESSMENT_NOTES[indicator_key], which nothing here reads
SeedNote == "note"

\* what random.randint(4, 8) may return
RandInt == 4..8

\* mutant: the ratings handed in are not looked at
create_full_assessment_RandomRatings(first_id, group_type, assessed_at, ratings, randint) ==
    [k \in 1..Len(get_indicators_for_group_type(group_type)) |->
        [id |-> first_id + k,
         indicator_key |-> get_indicators_for_group_type(group_type)[k],
         rating |-> 8,
         notes |-> SeedNote,
         assessed_at |-> assessed_at]]

\* the rows of one impulse: one for each indicator of the group type, their
\* ids counted on from first_id; an indicator without a rating in ratings
\* gets randint[key], what random.randint(4, 8) returned for its row
create_full_assessment(first_id, group_type, assessed_at, ratings, randint) ==
    [k \in 1..Len(get_indicators_for_group_type(group_type)) |->
        [id |-> first_id + k,
         indicator_key |-> get_indicators_for_group_type(group_type)[k],
         rating |-> IF get_indicators_for_group_type(group_type)[k] \in DOMAIN ratings
                    THEN ratings[get_indicators_for_group_type(group_type)[k]]
                    ELSE randint[get_indicators_for_group_type(group_type)[k]],
         notes |-> SeedNote,
         assessed_at |-> assessed_at]]

\* the <<impulse, indicator>> pairs rating_history holds no rating for
NeedsFallback(group_type, num_impulses, rating_history) ==
    {<<j, key>> \in (1..num_impulses) \X Range(get_indicators_for_group_type(group_type)) :
        \/ key \notin DOMAIN rating_history
        \/ j > Len(rating_history[key])}

\* the impulse sets of the call made at now; randint[<<j, key>>] is what
\* random.randint returned for a row that rating_history holds no rating for
create_impulse_history(now, group_type, num_impulses, start_days_ago, rating_history, randint) ==
    LET base_date == get_base_date(now, start_days_ago)
        per_impulse == Len(get_indicators_for_group_type(group_type))
    IN  [j \in 1..num_impulses |->
            create_full_assessment(
                next_id + (j - 1) * per_impulse,
                group_type,
                generate_timestamp_from_base(
                    base_date, days_offset(j - 1, start_days_ago, num_impulses)),
                [key \in {k \in DOMAIN rating_history : j <= Len(rating_history[k])} |->
                    IntRound(rating_history[key][j])],
                [key \in {k \in Range(get_indicators_for_group_type(group_type)) :
                             <<j, k>> \in DOMAIN randint} |-> randint[<<j, key>>]])]

RECURSIVE Flatten(_)
\* the rows of the impulse sets in the order they were inserted
Flatten(sets) ==
    IF sets = <<>> THEN <<>> ELSE Head(sets) \o Flatten(Tail(sets))

----------------------------------------------------------------------------
(* Inputs of the handlers *)

GroupIds == {GroupId, "g0"}

StoredKeys == {"orientierung_sinn", "empowerment"}

StoredRatings == {4, 8}

\* the requests the handlers reject: a missing group, an indicator of
\* another group type, an unknown indicator, a rating below and above 1..10
Rejects ==
    {[group_id |-> "g0", indicator_key |-> "orientierung_sinn", rating |-> 4],
     [group_id |-> GroupId, indicator_key |-> "vorbildfunktion", rating |-> 4],
     [group_id |-> GroupId, indicator_key |-> "bogus", rating |-> 4],
     [group_id |-> GroupId, indicator_key |-> "orientierung_sinn", rating |-> 0],
     [group_id |-> GroupId, indicator_key |-> "orientierung_sinn", rating |-> 11]}

CreateRequests ==
    {[group_id |-> GroupId, indicator_key |-> k, rating |-> r, notes |-> NoNotes] :
        k \in StoredKeys, r \in StoredRatings}
    \cup {[group_id |-> q.group_id, indicator_key |-> q.indicator_key,
           rating |-> q.rating, notes |-> NoNotes] : q \in Rejects}

\* assessed_at of the request: absent, or midnight of day 0
InputAssessedAt == {None, 0}

AddRequests ==
    {[group_id |-> GroupId, indicator_key |-> k, rating |-> r, notes |-> NoNotes,
      assessed_at |-> at] : k \in StoredKeys, r \in StoredRatings, at \in InputAssessedAt}
    \cup {[group_id |-> GroupId, indicator_key |-> "empowerment", rating |-> 8,
           notes |-> "n1", assessed_at |-> None]}
    \cup {[group_id |-> q.group_id, indicator_key |-> q.indicator_key,
           rating |-> q.rating, notes |-> NoNotes, assessed_at |-> None] : q \in Rejects}
    \cup {[group_id |-> GroupId, indicator_key |-> "empowerment", rating |-> 4,
           notes |-> NoNotes, assessed_at |-> Unparsable]}

\* ratings_json: a JSON object of one or two members
InputBatches ==
    {<<<<"orientierung_sinn", r1>>, <<"empowerment", r2>>>> :
        r1 \in StoredRatings, r2 \in {0, 8}}
    \cup {<<<<k, 4>>>> : k \in {"empowerment", "vorbildfunktion"}}

InputLimits == {1, DefaultLimit}

Ids == 1..(MaxRecords + 1)

Init ==
    /\ stakeholder_assessments = <<>>
    /\ clock = 0
    /\ next_id = 0
    /\ assessments = <<>>
    /\ response = [op |-> "init", status |-> "ok"]
    /\ generated = NoCall
    /\ earlier = {}
    /\ history = NoHistory

\* the bounds: the table stays within MaxRecords rows, the clock within MaxClock
Bounded ==
    /\ Len(stakeholder_assessments') <= MaxRecords
    /\ clock' <= MaxClock
    /\ next_id' <= MaxRecords + 1

McpCreate ==
    \E req \in CreateRequests, now \in Later(clock) :
        /\ assessment_create(req.group_id, req.indicator_key, req.rating, req.notes, now)
        /\ Bounded
        /\ UNCHANGED generators

McpBatchCreate ==
    \E b \in InputBatches, now \in Later(clock) :
        /\ \E g \in IF Len(b) = 1 THEN GroupIds ELSE {GroupId} :
              assessment_batch_create(g, b, now)
        /\ Bounded
        /\ UNCHANGED generators

McpDelete == (\E id \in Ids : assessment_delete(id)) /\ UNCHANGED generators

McpHistory == (\E g \in GroupIds : impulse_history_get(g)) /\ UNCHANGED generators

HttpAdd ==
    \E req \in AddRequests, now \in Later(clock) :
        /\ add_stakeholder_assessment(req.group_id, req.indicator_key, req.rating,
                                      req.notes, req.assessed_at, now)
        /\ Bounded
        /\ UNCHANGED generators

HttpDelete == (\E id \in Ids : delete_stakeholder_assessment(id)) /\ UNCHANGED generators

HttpHistory ==
    /\ \E g \in GroupIds, limit \in InputLimits : get_impulse_history(g, limit)
    /\ UNCHANGED generators

Next ==
    \/ McpCreate
    \/ McpBatchCreate
    \/ McpDelete
    \/ McpHistory
    \/ HttpAdd
    \/ HttpDelete
    \/ HttpHistory

Spec == Init /\ [][Next]_vars

(* The writing handlers of both interfaces, with the batch endpoint of the *)
(* router and with assessed_at strings that carry a UTC offset.            *)

OffsetRequests ==
    {[group_id |-> GroupId, indicator_key |-> k, rating |-> r, notes |-> NoNotes,
      assessed_at |-> WithOffset] : k \in StoredKeys, r \in StoredRatings}

\* the members of a submitted list: one on the clock's date and one on day 0
\* that the handler accepts, one with a rating out of range and one with a
\* UTC offset
SubmittedEntries ==
    {[indicator_key |-> "orientierung_sinn", rating |-> 4, notes |-> NoNotes,
      assessed_at |-> None],
     [indicator_key |-> "empowerment", rating |-> 8, notes |-> "n1",
      assessed_at |-> 0],
     [indicator_key |-> "orientierung_sinn", rating |-> 11, notes |-> NoNotes,
      assessed_at |-> None],
     [indicator_key |-> "empowerment", rating |-> 4, notes |-> NoNotes,
      assessed_at |-> WithOffset]}

\* the lists submitted: empty, of one and of two assessments
Submissions ==
    {<<>>} \cup {<<a>> : a \in SubmittedEntries}
    \cup {<<a, b>> : a \in SubmittedEntries, b \in SubmittedEntries}

HttpAddWithOffset ==
    \E req \in OffsetRequests, now \in Later(clock) :
        /\ add_stakeholder_assessment(req.group_id, req.indicator_key, req.rating,
                                      req.notes, req.assessed_at, now)
        /\ Bounded
        /\ UNCHANGED generators

HttpBatchAdd ==
    \E submitted \in Submissions :
        /\ \E g \in IF Len(submitted) = 1 THEN GroupIds ELSE {GroupId} :
              batch_add_assessments(g, submitted)
        /\ Bounded
        /\ UNCHANGED generators

NextOps ==
    \/ McpCreate
    \/ McpBatchCreate
    \/ McpDelete
    \/ HttpAdd
    \/ HttpAddWithOffset
    \/ HttpBatchAdd
    \/ HttpDelete

SpecOps == Init /\ [][NextOps]_vars

NextHttp ==
    \/ HttpAdd
    \/ HttpAddWithOffset
    \/ HttpBatchAdd
    \/ HttpDelete

SpecHttp == Init /\ [][NextHttp]_vars

----------------------------------------------------------------------------
(* Long histories of one indicator, written through assessment_create.   *)
(* Most rows carry one common rating; a bounded number of rows differ.     *)

Off(common) ==
    Cardinality({i \in 1..Len(stakeholder_assessments') :
        <<stakeholder_assessments'[i].indicator_key,
          stakeholder_assessments'[i].rating>> # common})

TrendCommon == <<"orientierung_sinn", 2>>

TrendInputs == {TrendCommon, <<"orientierung_sinn", 1>>, <<"orientierung_sinn", 3>>}

TrendCreate ==
    \E in \in TrendInputs :
        /\ assessment_create(GroupId, in[1], in[2], NoNotes, clock + 1)
        /\ Len(stakeholder_assessments') <= MaxTrendRows
        /\ Off(TrendCommon) <= MaxTrendOff
        /\ UNCHANGED generators

TrendHistory == impulse_history_get(GroupId) /\ UNCHANGED generators

NextTrend == TrendCreate \/ TrendHistory

SpecTrend == Init /\ [][NextTrend]_vars

(* Histories of two indicators.  The group starts with no assessment, or  *)
(* with a history of WeakSeedRows assessments of one indicator, all rated  *)
(* 6, that assessment_create wrote at consecutive instants; up to          *)
(* MaxWeakLive assessments are then added.                                 *)

WeakCommon == <<"orientierung_sinn", 6>>

WeakInputs ==
    {WeakCommon, <<"orientierung_sinn", 5>>, <<"empowerment", 4>>, <<"empowerment", 7>>}

SeededHistory(n) ==
    [i \in 1..n |-> [id |-> i, indicator_key |-> WeakCommon[1], rating |-> WeakCommon[2],
                     notes |-> NoNotes, assessed_at |-> i]]

InitWeak ==
    \E n \in {0, WeakSeedRows} :
        /\ stakeholder_assessments = SeededHistory(n)
        /\ clock = n
        /\ next_id = n
        /\ assessments = <<>>
        /\ response = [op |-> "init", status |-> "ok"]
        /\ generated = NoCall
        /\ earlier = {}
        /\ history = NoHistory

WeakCreate ==
    \E in \in WeakInputs :
        /\ assessment_create(GroupId, in[1], in[2], NoNotes, clock + 1)
        /\ \/ Len(stakeholder_assessments') <= MaxWeakLive
           \/ /\ Len(stakeholder_assessments') > WeakSeedRows
              /\ Len(stakeholder_assessments') <= WeakSeedRows + MaxWeakLive
        /\ UNCHANGED generators

WeakHistory == impulse_history_get(GroupId) /\ UNCHANGED generators

NextWeak == WeakCreate \/ WeakHistory

SpecWeak == InitWeak /\ [][NextWeak]_vars

(* Impulses written by assessment_batch_create: the records of one call   *)
(* share its timestamp, and ORDER BY assessed_at DESC leaves their order   *)
(* open.                                                                   *)

TieKeys == <<"orientierung_sinn", "psychologische_sicherheit", "empowerment",
             "partizipation">>

TieRatings == {3, 9}

\* ratings_json: the ratings of one impulse, for four indicators of the group
TieBatches ==
    {[k \in 1..Len(TieKeys) |-> <<TieKeys[k], r[k]>>] :
        r \in [1..Len(TieKeys) -> TieRatings]}

TieBatchCreate ==
    \E b \in TieBatches, now \in Later(clock) :
        /\ assessment_batch_create(GroupId, b, now)
        /\ Len(stakeholder_assessments') <= MaxTieRows
        /\ UNCHANGED generators

TieHistory == impulse_history_get(GroupId) /\ UNCHANGED generators

NextTies == TieBatchCreate \/ TieHistory

SpecTies == Init /\ [][NextTies]_vars

(* Histories with records that carry no rating: the rating column admits  *)
(* NULL and impulse_history_get reads whatever the table holds.  The group *)
(* starts with up to MaxNullRows records of two indicators, written at     *)
(* consecutive instants, each with a rating or without one.                *)

NullRatings == {None, 4, 8}

NullHistories ==
    UNION {[1..n -> StoredKeys \X NullRatings] : n \in 0..MaxNullRows}

InitNull ==
    \E h \in NullHistories :
        /\ stakeholder_assessments =
              [i \in 1..Len(h) |-> [id |-> i, indicator_key |-> h[i][1],
                                    rating |-> h[i][2], notes |-> NoNotes,
                                    assessed_at |-> i]]
        /\ clock = Len(h)
        /\ next_id = Len(h)
        /\ assessments = <<>>
        /\ response = [op |-> "init", status |-> "ok"]
        /\ generated = NoCall
        /\ earlier = {}
        /\ history = NoHistory

NullHistory == impulse_history_get(GroupId) /\ UNCHANGED generators

NextNull == NullHistory

SpecNull == InitNull /\ [][NextNull]_vars

(* Calls of RatingPatternGenerator.generate_pattern.  The arguments of a   *)
(* call are drawn at the start; the call draws one noise value for each    *)
(* point.  "plateau", "kunden" and "unbekannt" are names the generator     *)
(* does not know.                                                          *)

PatternTypes ==
    {"honeymoon_dip_recovery", "steady_improvement", "struggle_then_improve",
     "volatile", "declining", "plateau"}

InputGroupTypes == {"fuehrungskraefte", "mitarbeitende", "kunden"}

InputIndicatorKeys == {"wertschaetzung", "widerstandsmanagement", "unbekannt"}

\* noise_level in tenths: 0.0, the default 0.3 and 1.0, the largest documented
InputNoiseLevels == {0, 3, 10}

(* random.gauss(0, sigma) returns z * sigma with                           *)
(* z = cos(2 * pi * u1) * sqrt(-2 * log(1 - u2)) or the sine instead, u1   *)
(* and u2 in [0, 1) with 53 bits: |z| <= sqrt(2 * 53 * log(2)) = 8.5717.   *)
(* GaussTail is that reach in thousandths of a rating for each tenth of    *)
(* sigma.                                                                  *)
GaussTail == 857

\* z drawn, in hundredths: the two ends of the reach, -1.0 and 1.33
NoiseDraws == {-GaussTail, -100, 133, GaussTail}

\* mutant: noise drawn whatever the noise_level
gauss_IgnoringLevel(noise_level) == {z * 3 : z \in NoiseDraws}

\* what random.gauss(0, noise_level) may return, noise_level in tenths
gauss(noise_level) == {z * noise_level : z \in NoiseDraws}

InitPattern ==
    /\ stakeholder_assessments = <<>>
    /\ clock = 0
    /\ next_id = 0
    /\ assessments = <<>>
    /\ response = [op |-> "init", status |-> "ok"]
    /\ earlier = {}
    /\ history = NoHistory
    /\ generated \in
         {[pattern_type |-> p, num_points |-> n, group_type |-> g,
           indicator_key |-> k, noise_level |-> l, returned |-> FALSE,
           ratings |-> <<>>] :
             p \in PatternTypes, n \in 1..MaxPoints, g \in InputGroupTypes,
             k \in InputIndicatorKeys, l \in InputNoiseLevels}

GeneratePattern ==
    /\ ~generated.returned
    /\ \E noise \in [1..generated.num_points -> gauss(generated.noise_level)] :
          generated' =
              [generated EXCEPT
                  !.returned = TRUE,
                  !.ratings = generate_pattern(generated.pattern_type,
                                               generated.num_points,
                                               generated.group_type,
                                               generated.indicator_key, noise)]
    /\ UNCHANGED <<stakeholder_assessments, clock, next_id, assessments, response,
                   earlier, history>>

NextPattern == GeneratePattern

SpecPattern == InitPattern /\ [][NextPattern]_vars

(* Repeated calls of generate_pattern: each call takes its arguments from   *)
(* RepeatInputs and draws its noise anew, whatever was drawn before; the    *)
(* calls completed before it are remembered in earlier.                     *)

RepeatInputs ==
    {[pattern_type |-> "volatile", num_points |-> n, group_type |-> "mitarbeitende",
      indicator_key |-> "empowerment", noise_level |-> l] :
        n \in {1, 2}, l \in {0, 3}}

Regenerate ==
    /\ \E in \in RepeatInputs :
          \E noise \in [1..in.num_points -> gauss(in.noise_level)] :
              generated' =
                  [pattern_type |-> in.pattern_type, num_points |-> in.num_points,
                   group_type |-> in.group_type, indicator_key |-> in.indicator_key,
                   noise_level |-> in.noise_level, returned |-> TRUE,
                   ratings |-> generate_pattern(in.pattern_type, in.num_points,
                                                in.group_type, in.indicator_key, noise)]
    /\ earlier' = IF generated.returned THEN earlier \cup {generated} ELSE earlier
    /\ Cardinality(earlier') <= MaxEarlier
    /\ UNCHANGED <<stakeholder_assessments, clock, next_id, assessments, response, history>>

NextRepeat == Regenerate

(* Calls of StakeholderAssessmentFactory.create_impulse_history on the     *)
(* empty table of the group.  The rating history holds one rating for      *)
(* every indicator of the group type and every impulse, or lacks the last  *)
(* rating of "wertschaetzung".                                             *)

SeedInputs ==
    {[num_impulses |-> n, start_days_ago |-> d] :
        n \in 1..MaxImpulses, d \in 0..MaxDaysAgo}
    \cup {[num_impulses |-> 8, start_days_ago |-> 61]}

\* ratings of the history: 4.5 and 6.5, stored as 4 and 6
SeedRatings == {45, 65}

\* the rating histories handed in for num_impulses impulses
SeedHistories(num_impulses) ==
    {[key \in Range(get_indicators_for_group_type(GroupType)) |->
         [j \in 1..(IF key = "wertschaetzung" THEN num_impulses - short
                    ELSE num_impulses) |-> r]] :
        r \in SeedRatings, short \in {0, 1}}

SeedHistory ==
    /\ stakeholder_assessments = <<>>
    /\ \E in \in SeedInputs, now \in Later(clock) :
        \E rating_history \in SeedHistories(in.num_impulses) :
          \E randint \in [NeedsFallback(GroupType, in.num_impulses, rating_history)
                             -> RandInt] :
            LET impulses == create_impulse_history(now, GroupType, in.num_impulses,
                                                   in.start_days_ago, rating_history,
                                                   randint)
            IN  /\ stakeholder_assessments' = Flatten(impulses)
                /\ clock' = now
                /\ next_id' = next_id + Len(Flatten(impulses))
                /\ response' = [op |-> "seed", status |-> "ok",
                                num_impulses |-> in.num_impulses,
                                start_days_ago |-> in.start_days_ago,
                                rating_history |-> rating_history,
                                impulses |-> impulses]
    /\ UNCHANGED <<assessments, generators>>

NextSeed == SeedHistory

SpecSeed == Init /\ [][NextSeed]_vars

(* Noise-free series of the shapes that need no table, of up to 13 points, *)
(* and their trend: the series a call of generate_pattern returned is fed, *)
(* most recent first, to the trend computation of impulse_history_get.     *)

SeriesPatterns == {"honeymoon_dip_recovery", "declining", "plateau"}

SeriesPoints == {1, 2, 3, 4, 5, 6, 13}

SeriesGroupTypes == {"multiplikatoren", "mitarbeitende"}

SeriesIndicatorKeys == {"orientierung_sinn", "empowerment"}

InitSeries ==
    /\ stakeholder_assessments = <<>>
    /\ clock = 0
    /\ next_id = 0
    /\ assessments = <<>>
    /\ response = [op |-> "init", status |-> "ok"]
    /\ earlier = {}
    /\ history = NoHistory
    /\ generated \in
         {[pattern_type |-> p, num_points |-> n, group_type |-> g,
           indicator_key |-> k, noise_level |-> 0, returned |-> FALSE,
           ratings |-> <<>>] :
             p \in SeriesPatterns, n \in SeriesPoints, g \in SeriesGroupTypes,
             k \in SeriesIndicatorKeys}

AnalyzeSeries ==
    /\ generated.returned
    /\ response.op # "trend"
    /\ response' = [op |-> "trend", status |-> "ok",
                    trend |-> TrendOfTenths(MostRecentFirst(generated.ratings))]
    /\ UNCHANGED <<stakeholder_assessments, clock, next_id, assessments, generators>>

NextSeries == GeneratePattern \/ AnalyzeSeries

SpecSeries == InitSeries /\ [][NextSeries]_vars

(* Calls of _honeymoon_dip_recovery, the shape before noise, clamping and  *)
(* rounding, with the base ratings of the catalog.                         *)

ShapeBases ==
    {get_base_rating(g, key) :
        g \in DOMAIN GROUP_BASELINES, key \in DOMAIN INDICATOR_MODIFIERS}

ComputeShape ==
    /\ \E n \in 1..MaxShapePoints, base \in ShapeBases :
          response' = [op |-> "_honeymoon_dip_recovery", status |-> "ok",
                       n |-> n, base |-> base,
                       values |-> honeymoon_dip_recovery(n, base)]
    /\ UNCHANGED <<stakeholder_assessments, clock, next_id, assessments, generators>>

NextShape == ComputeShape

SpecShape == Init /\ [][NextShape]_vars

(* Calls of generate_assessment_history.  For each key the call draws the  *)
(* perturbation of the noise level and then, in generate_pattern, one      *)
(* noise value for each point: z * sigma with z at either end of its       *)
(* reach.                                                                  *)

HistoryInputs ==
    {[pattern_type |-> "honeymoon_dip_recovery", num_impulses |-> 13,
      group_type |-> "fuehrungskraefte", indicator_keys |-> <<"orientierung_sinn">>,
      noise_level |-> 0],
     [pattern_type |-> "honeymoon_dip_recovery", num_impulses |-> 3,
      group_type |-> "fuehrungskraefte", indicator_keys |-> <<"orientierung_sinn">>,
      noise_level |-> 3],
     [pattern_type |-> "declining", num_impulses |-> 2,
      group_type |-> "mitarbeitende",
      indicator_keys |-> <<"empowerment", "partizipation">>, noise_level |-> 0],
     [pattern_type |-> "declining", num_impulses |-> 2,
      group_type |-> "mitarbeitende",
      indicator_keys |-> <<"empowerment", "partizipation">>, noise_level |-> 3]}

\* random.uniform(-0.1, 0.1) in tenths: its two ends and the middle
uniform == {-1, 0, 1}

\* z at the two ends of its reach
GaussEnds == {-GaussTail, GaussTail}

InitHistory ==
    /\ stakeholder_assessments = <<>>
    /\ clock = 0
    /\ next_id = 0
    /\ assessments = <<>>
    /\ response = [op |-> "init", status |-> "ok"]
    /\ generated = NoCall
    /\ earlier = {}
    /\ history \in
         {[pattern_type |-> in.pattern_type, num_impulses |-> in.num_impulses,
           group_type |-> in.group_type, indicator_keys |-> in.indicator_keys,
           noise_level |-> in.noise_level, returned |-> FALSE,
           sigma |-> <<>>, result |-> <<>>] : in \in HistoryInputs}

GenerateHistory ==
    /\ ~history.returned
    /\ \E u \in [Range(history.indicator_keys) -> uniform] :
         \E z \in [Range(history.indicator_keys) ->
                       [1..history.num_impulses -> GaussEnds]] :
            LET sigma == [key \in Range(history.indicator_keys) |->
                             indicator_noise(history.noise_level, u[key])]
                noise == [key \in Range(history.indicator_keys) |->
                             [j \in 1..history.num_impulses |-> z[key][j] * sigma[key]]]
            IN  history' =
                    [history EXCEPT
                        !.returned = TRUE,
                        !.sigma = sigma,
                        !.result = generate_assessment_history(
                                       history.pattern_type, history.num_impulses,
                                       history.group_type, history.indicator_keys, noise)]
    /\ UNCHANGED <<stakeholder_assessments, clock, next_id, assessments, response,
                   generated, earlier>>

NextHistory == GenerateHistory

SpecHistory == InitHistory /\ [][NextHistory]_vars

(* ScenarioGenerator.create_impulse_history for the group of the model:    *)
(* the rating history comes from generate_assessment_history with the      *)
(* pattern of the group type and the default noise level, and goes to the  *)
(* factory.  The perturbation of the noise level is drawn once for all     *)
(* keys, the noise of each point at either end of its reach.               *)

\* patterns: none for the group type, or "declining"
ScenarioPatterns == {<<>>, [multiplikatoren |-> "declining"]}

ScenarioImpulses == {1, 2}

ScenarioDaysAgo == {0, 3}

\* noise_level: float = 0.3, in tenths
DefaultNoiseLevel == 3

ScenarioCreateImpulseHistory ==
    /\ stakeholder_assessments = <<>>
    /\ \E patterns \in ScenarioPatterns, n \in ScenarioImpulses,
          d \in ScenarioDaysAgo, now \in Later(clock), u \in uniform :
        \E z \in [Range(get_indicators_for_group_type(GroupType)) ->
                     [1..n -> GaussEnds]] :
          LET pattern == IF GroupType \in DOMAIN patterns THEN patterns[GroupType]
                         ELSE "steady_improvement"
              indicator_keys == get_indicators_for_group_type(GroupType)
              noise == [key \in Range(indicator_keys) |->
                           [j \in 1..n |->
                               z[key][j] * indicator_noise(DefaultNoiseLevel, u)]]
              rating_history == generate_assessment_history(
                                    pattern, n, GroupType, indicator_keys, noise)
          IN  \E randint \in [NeedsFallback(GroupType, n, rating_history) -> RandInt] :
                LET impulses == create_impulse_history(now, GroupType, n, d,
                                                       rating_history, randint)
                IN  /\ stakeholder_assessments' = Flatten(impulses)
                    /\ clock' = now
                    /\ next_id' = next_id + Len(Flatten(impulses))
                    /\ response' = [op |-> "scenario", status |-> "ok",
                                    num_impulses |-> n,
                                    start_days_ago |-> d,
                                    rating_history |-> rating_history,
                                    impulses |-> impulses]
    /\ UNCHANGED <<assessments, generators>>

NextScenario == ScenarioCreateImpulseHistory

SpecScenario == Init /\ [][NextScenario]_vars

SpecRepeat == Init /\ [][NextRepeat]_vars

----------------------------------------------------------------------------
(* Properties of generate_pattern, stated on the call and its result       *)
(* (generated).                                                            *)

PatternReturned == generated.returned

\* C1: for each of the five pattern types and for an unrecognized one, for
\* every num_points >= 1, group type, indicator key and noise drawn, each
\* rating generate_pattern returns lies in [1.0, 10.0] (10..100 tenths).
C1_GeneratedRatingsInRange ==
    PatternReturned =>
        \A j \in DOMAIN generated.ratings :
            generated.ratings[j] >= 10 /\ generated.ratings[j] <= 100

\* a noisy call of an unrecognized pattern whose values were cut at both
\* ends of the scale and, for one point, left inside it
C1_Witness ==
    /\ PatternReturned
    /\ generated.pattern_type = "plateau"
    /\ generated.noise_level > 0
    /\ \E a, b, c \in DOMAIN generated.ratings :
          /\ generated.ratings[a] = 10
          /\ generated.ratings[b] = 100
          /\ generated.ratings[c] > 10 /\ generated.ratings[c] < 100

----------------------------------------------------------------------------
(* Properties of impulse_history_get and get_impulse_history.  They are    *)
(* stated on the rows the handler fetched (assessments) and on what it     *)
(* returned (response), with sums and counts taken directly over the rows. *)

HistoryReturned == response.op = "impulse_history_get" /\ response.status = "ok"

\* sum of the ratings of rows[lo..hi] whose indicator key is in K
RECURSIVE RatingSum(_, _, _, _)
RatingSum(rows, lo, hi, K) ==
    IF hi < lo THEN 0
    ELSE RatingSum(rows, lo, hi - 1, K)
         + (IF rows[hi].indicator_key \in K THEN rows[hi].rating ELSE 0)

RatingCount(rows, K) == Cardinality({i \in 1..Len(rows) : rows[i].indicator_key \in K})

FetchedKeys == {assessments[i].indicator_key : i \in 1..Len(assessments)}

CalendarDate(a) == a.assessed_at \div TicksPerDay

FetchedDates == {CalendarDate(assessments[i]) : i \in 1..Len(assessments)}

\* tenths is sum/count rounded to one decimal (a tie may go either way)
IsRounded(tenths, sum, count) ==
    /\ 2 * (10 * sum - tenths * count) <= count
    /\ 2 * (tenths * count - 10 * sum) <= count

WeakKeys == {response.weak_indicators[i].key : i \in 1..Len(response.weak_indicators)}

\* the two halves of the ratings in read order: 2 * mid * older * (mean(recent) - mean(older))
HalvesDifference2 ==
    LET n == Len(assessments)
        mid == n \div 2
    IN  2 * RatingSum(assessments, 1, mid, FetchedKeys) * (n - mid)
        - 2 * RatingSum(assessments, mid + 1, n, FetchedKeys) * mid

\* 2 * mid * older * 0.5
HalvesBand == (Len(assessments) \div 2) * (Len(assessments) - Len(assessments) \div 2)

(* C2: with n >= 4 ratings in read order, recent = the first n // 2 ratings *)
(* and older = the rest, the trend is "up" exactly when mean(recent) >      *)
(* mean(older) + 0.5, "down" exactly when mean(recent) < mean(older) - 0.5, *)
(* and "stable" otherwise, a difference of exactly 0.5 included.            *)
C2_TrendComparesHalves ==
    (HistoryReturned /\ Len(assessments) >= 4) =>
        /\ (response.trend = "up") <=> (HalvesDifference2 > HalvesBand)
        /\ (response.trend = "down") <=> (HalvesDifference2 < -HalvesBand)
        /\ (response.trend = "stable") <=>
              (HalvesDifference2 <= HalvesBand /\ HalvesDifference2 >= -HalvesBand)

(* C3: a history of 1, 2 or 3 ratings is reported with trend "stable"       *)
(* whatever the ratings are.                                                *)
C3_ShortHistoryStable ==
    (HistoryReturned /\ Len(assessments) >= 1 /\ Len(assessments) < 4) =>
        response.trend = "stable"

\* three ratings whose recent one is far above the older ones
C3_Witness ==
    /\ HistoryReturned
    /\ Len(assessments) = 3
    /\ assessments[1].rating = 3
    /\ assessments[2].rating = 1
    /\ assessments[3].rating = 1
    /\ response.trend = "stable"

(* C4: for an existing group with no assessment records impulse_history_get *)
(* raises no error and returns total_assessments = 0, average_rating =      *)
(* null, trend = "stable", no weak indicators and no indicator averages.    *)
C4_EmptyHistory ==
    (response.op = "impulse_history_get" /\ stakeholder_assessments = <<>>) =>
        IF response.status = "error"
        THEN response.detail = "Stakeholder group not found"
        ELSE /\ response.group_id = GroupId
             /\ response.total_assessments = 0
             /\ response.average_rating = None
             /\ response.trend = "stable"
             /\ Len(response.weak_indicators) = 0
             /\ DOMAIN response.indicator_averages = {}
             /\ Len(response.impulse_dates) = 0

\* the history of the group was asked for after its last assessment was deleted
C4_Witness ==
    /\ HistoryReturned
    /\ stakeholder_assessments = <<>>
    /\ next_id > 0
    /\ response.total_assessments = 0
    /\ response.average_rating = None

(* C5: weak_indicators holds an entry for indicator key k if and only if    *)
(* the mean of all of k's ratings is strictly below 6.0.                    *)
C5_WeakIffMeanBelowSix ==
    HistoryReturned =>
        /\ WeakKeys \subseteq FetchedKeys
        /\ \A k \in FetchedKeys :
              (k \in WeakKeys) <=>
                 (RatingSum(assessments, 1, Len(assessments), {k})
                     < 6 * RatingCount(assessments, {k}))

\* one indicator with mean exactly 6.0 beside one with a mean below 6.0
C5_Witness ==
    /\ HistoryReturned
    /\ RatingCount(assessments, {"orientierung_sinn"}) = 2
    /\ RatingSum(assessments, 1, Len(assessments), {"orientierung_sinn"}) = 12
    /\ WeakKeys = {"empowerment"}

(* C6: weak_indicators is ordered by rating ascending: each entry's rating  *)
(* is at most the next entry's rating.                                      *)
C6_WeakSortedAscending ==
    HistoryReturned =>
        \A i \in 1..(Len(response.weak_indicators) - 1) :
            response.weak_indicators[i].rating <= response.weak_indicators[i + 1].rating

\* two weak indicators, the weaker one met second in read order
C6_Witness ==
    /\ HistoryReturned
    /\ Len(response.weak_indicators) = 2
    /\ response.weak_indicators[1].rating < response.weak_indicators[2].rating
    /\ assessments[1].indicator_key = response.weak_indicators[2].key

\* entry e of weak_indicators restates the entry of indicator_averages of its key
RestatesAverage(e) ==
    /\ e.key \in DOMAIN response.indicator_averages
    /\ e.rating = response.indicator_averages[e.key]

(* C7 as claimed: every entry of weak_indicators corresponds to an entry of *)
(* indicator_averages whose value is below 6.0 and carries that value as    *)
(* its rating; no weak entry is reported with a rating of 6.0 or more.      *)
C7_WeakBelowSixReported ==
    HistoryReturned =>
        \A i \in 1..Len(response.weak_indicators) :
            /\ RestatesAverage(response.weak_indicators[i])
            /\ response.indicator_averages[response.weak_indicators[i].key] < 60
            /\ response.weak_indicators[i].rating < 60

(* C7 as amended: every entry of weak_indicators corresponds to an entry of *)
(* indicator_averages and carries that value (the mean rounded to one       *)
(* decimal) as its rating; the unrounded mean is below 6.0 and the reported *)
(* value is at most 6.0 (a mean in [5.95, 6.0) is reported as 6.0).         *)
C7_WeakRestatesAverage ==
    HistoryReturned =>
        \A i \in 1..Len(response.weak_indicators) :
            LET e == response.weak_indicators[i]
            IN  /\ RestatesAverage(e)
                /\ e.rating <= 60
                /\ IsRounded(e.rating, RatingSum(assessments, 1, Len(assessments), {e.key}),
                             RatingCount(assessments, {e.key}))
                /\ RatingSum(assessments, 1, Len(assessments), {e.key})
                      < 6 * RatingCount(assessments, {e.key})

\* a weak indicator whose mean 17/3 is reported as 5.7
C7_Witness ==
    /\ HistoryReturned
    /\ Len(response.weak_indicators) >= 1
    /\ response.weak_indicators[1].rating = 57
    /\ response.indicator_averages[response.weak_indicators[1].key] = 57

(* C8: average_rating is the mean over all individual rating records, each  *)
(* record weighted once, rounded to one decimal; it is not the mean of the  *)
(* per-indicator averages.                                                  *)
C8_AverageIsRecordWeighted ==
    (HistoryReturned /\ Len(assessments) >= 1) =>
        IsRounded(response.average_rating,
                  RatingSum(assessments, 1, Len(assessments), FetchedKeys),
                  Len(assessments))

\* indicators with 2 and 1 records: record-weighted (6 + 6 + 4) / 3 = 5.3,
\* mean of the per-indicator averages (6 + 4) / 2 = 5.0
C8_Witness ==
    /\ HistoryReturned
    /\ Len(assessments) = 3
    /\ "orientierung_sinn" \in FetchedKeys
    /\ "empowerment" \in FetchedKeys
    /\ response.indicator_averages["orientierung_sinn"] = 60
    /\ response.indicator_averages["empowerment"] = 40
    /\ response.average_rating = 53

(* C9: for every indicator key with at least one rating,                    *)
(* indicator_averages[key] is the mean of all ratings recorded for that key *)
(* across all dates, rounded to one decimal.                                *)
C9_IndicatorAverageOverAllDates ==
    HistoryReturned =>
        /\ DOMAIN response.indicator_averages = FetchedKeys
        /\ \A k \in FetchedKeys :
              IsRounded(response.indicator_averages[k],
                        RatingSum(assessments, 1, Len(assessments), {k}),
                        RatingCount(assessments, {k}))

\* an indicator rated 5 on the latest date and 6 on an earlier date: 5.5
C9_Witness ==
    /\ HistoryReturned
    /\ Len(assessments) = 2
    /\ CalendarDate(assessments[1]) > CalendarDate(assessments[2])
    /\ assessments[1].indicator_key = "orientierung_sinn"
    /\ assessments[2].indicator_key = "orientierung_sinn"
    /\ assessments[1].rating = 5
    /\ assessments[2].rating = 6
    /\ response.indicator_averages["orientierung_sinn"] = 55

ImpulsesReturned == response.op = "get_impulse_history" /\ response.status = "ok"

ImpulseDatesReturned == {response.impulses[i].date : i \in 1..Len(response.impulses)}

KeysOfDate(d) ==
    {assessments[i].indicator_key : i \in {j \in 1..Len(assessments) :
                                              CalendarDate(assessments[j]) = d}}

\* the impulses are of distinct dates of the rows, each with the keys of its date
GroupedByDate ==
    /\ \A i, j \in 1..Len(response.impulses) :
          response.impulses[i].date = response.impulses[j].date => i = j
    /\ ImpulseDatesReturned \subseteq FetchedDates
    /\ \A i \in 1..Len(response.impulses) :
          DOMAIN response.impulses[i].ratings = KeysOfDate(response.impulses[i].date)

(* C10 as claimed: get_impulse_history returns exactly one impulse per      *)
(* distinct calendar date among the group's records, with all records of    *)
(* that date with different indicator keys in that impulse's ratings map.   *)
C10_OneImpulsePerDate ==
    ImpulsesReturned => (GroupedByDate /\ ImpulseDatesReturned = FetchedDates)

(* C10 as amended: get_impulse_history returns at most one impulse per      *)
(* distinct calendar date, exactly one for each of the `limit` most recent  *)
(* dates (for every date when there are at most `limit`), with all records  *)
(* of that date with different indicator keys in that impulse's ratings map.*)
C10_OneImpulsePerRecentDate ==
    ImpulsesReturned =>
        /\ GroupedByDate
        /\ Len(response.impulses) = Min(response.limit, Cardinality(FetchedDates))
        /\ \A d \in ImpulseDatesReturned : \A e \in FetchedDates \ ImpulseDatesReturned : e < d

\* two indicators rated at different times of one day share one impulse
C10_Witness ==
    /\ ImpulsesReturned
    /\ Len(assessments) = 2
    /\ assessments[1].assessed_at # assessments[2].assessed_at
    /\ Len(response.impulses) = 1
    /\ DOMAIN response.impulses[1].ratings = {"orientierung_sinn", "empowerment"}

----------------------------------------------------------------------------
(* Properties of the impulses of both handlers. *)

\* sum of the values of a ratings map
RECURSIVE MapSum(_, _)
MapSum(ratings, keys) ==
    IF keys = {} THEN 0
    ELSE LET k == CHOOSE x \in keys : TRUE
         IN  ratings[k] + MapSum(ratings, keys \ {k})

\* the impulse's average_rating is the mean of the values of its own ratings map
AverageOfOwnMap(impulse) ==
    IsRounded(impulse.average_rating, MapSum(impulse.ratings, DOMAIN impulse.ratings),
              Cardinality(DOMAIN impulse.ratings))

(* C11: for every impulse returned by get_impulse_history and by            *)
(* impulse_history_get, average_rating equals the mean of the values of     *)
(* that impulse's ratings map, rounded to one decimal, also when records    *)
(* share a date and an indicator key.                                       *)
C11_ImpulseAverageOfRatingsMap ==
    /\ ImpulsesReturned =>
          \A i \in 1..Len(response.impulses) : AverageOfOwnMap(response.impulses[i])
    /\ HistoryReturned =>
          \A i \in 1..Len(response.impulse_dates) :
              AverageOfOwnMap(response.impulse_dates[i])

\* the part of C11 about get_impulse_history
C11_HttpImpulseAverageOfRatingsMap ==
    ImpulsesReturned =>
        \A i \in 1..Len(response.impulses) : AverageOfOwnMap(response.impulses[i])

\* get_impulse_history over two records that share a date and an indicator key
C11_HttpWitness ==
    /\ ImpulsesReturned
    /\ Len(assessments) = 2
    /\ CalendarDate(assessments[1]) = CalendarDate(assessments[2])
    /\ assessments[1].indicator_key = assessments[2].indicator_key
    /\ assessments[1].rating # assessments[2].rating
    /\ Len(response.impulses) = 1

\* pairs <<i, j>> of rows of the table, i inserted before j, that share a
\* calendar date and an indicator key, j being the last row inserted for them
SameDayRewrites ==
    {p \in (1..Len(stakeholder_assessments)) \X (1..Len(stakeholder_assessments)) :
        /\ p[1] < p[2]
        /\ CalendarDate(stakeholder_assessments[p[1]]) = CalendarDate(stakeholder_assessments[p[2]])
        /\ stakeholder_assessments[p[1]].indicator_key = stakeholder_assessments[p[2]].indicator_key
        /\ \A k \in (p[2] + 1)..Len(stakeholder_assessments) :
              ~(/\ CalendarDate(stakeholder_assessments[k]) = CalendarDate(stakeholder_assessments[p[2]])
                /\ stakeholder_assessments[k].indicator_key = stakeholder_assessments[p[2]].indicator_key)}

\* every impulse of the row's date shows the row's rating for the row's key
ShowsRatingOf(impulses, a) ==
    \A i \in 1..Len(impulses) :
        impulses[i].date = CalendarDate(a) => impulses[i].ratings[a.indicator_key] = a.rating

(* C12: when two records of the group share a calendar date and an          *)
(* indicator key, the rating shown for that indicator in the date's impulse *)
(* (get_impulse_history and impulse_history_get) is the rating of the       *)
(* later-inserted record.                                                   *)
C12_LastWriteWins ==
    \A p \in SameDayRewrites :
        /\ ImpulsesReturned =>
              ShowsRatingOf(response.impulses, stakeholder_assessments[p[2]])
        /\ HistoryReturned =>
              ShowsRatingOf(response.impulse_dates, stakeholder_assessments[p[2]])

\* the part of C12 about get_impulse_history
C12_HttpLastWriteWins ==
    \A p \in SameDayRewrites :
        ImpulsesReturned => ShowsRatingOf(response.impulses, stakeholder_assessments[p[2]])

\* the part of C12 about impulse_history_get
C12_McpLastWriteWins ==
    \A p \in SameDayRewrites :
        HistoryReturned => ShowsRatingOf(response.impulse_dates, stakeholder_assessments[p[2]])

(* C13: the impulses get_impulse_history returns are in strictly descending *)
(* date order, no date twice, whatever the order the records were read in;  *)
(* when more than `limit` dates exist they are the `limit` most recent      *)
(* dates.                                                                   *)
C13_ImpulsesDescendingAndLimited ==
    ImpulsesReturned =>
        /\ \A i \in 1..Len(response.impulses) : \A j \in 1..Len(response.impulses) :
              i < j => response.impulses[i].date > response.impulses[j].date
        /\ ImpulseDatesReturned \subseteq FetchedDates
        /\ Cardinality(FetchedDates) <= response.limit =>
              ImpulseDatesReturned = FetchedDates
        /\ Cardinality(FetchedDates) > response.limit =>
              /\ Len(response.impulses) = response.limit
              /\ \A d \in FetchedDates \ ImpulseDatesReturned :
                    \A e \in ImpulseDatesReturned : d < e

\* records of two dates returned as two impulses, the later date first
C13_Witness ==
    /\ ImpulsesReturned
    /\ Cardinality(FetchedDates) = 2
    /\ Len(response.impulses) = 2
    /\ response.impulses[1].date > response.impulses[2].date

\* records of two dates and limit 1: only the later date is returned
C13_LimitWitness ==
    /\ ImpulsesReturned
    /\ Cardinality(FetchedDates) = 2
    /\ response.limit = 1
    /\ Len(response.impulses) = 1
    /\ \A d \in FetchedDates : d <= response.impulses[1].date

\* the rows of a sequence in every order
Reorderings(rows) ==
    {[i \in 1..Len(rows) |-> rows[p[i]]] : p \in PermsOf(1..Len(rows))}

\* no two of the fetched rows share a calendar date and an indicator key
NoSameDayRewrite ==
    \A i \in 1..Len(assessments) : \A j \in 1..Len(assessments) :
        (/\ CalendarDate(assessments[i]) = CalendarDate(assessments[j])
         /\ assessments[i].indicator_key = assessments[j].indicator_key) => i = j

\* the aggregation of the fetched rows gives what was returned, in whatever
\* order the rows are presented
SameInEveryOrder ==
    /\ ImpulsesReturned =>
          \A rows \in Reorderings(assessments) :
              Impulses(rows, response.limit) = response.impulses
    /\ HistoryReturned =>
          \A rows \in Reorderings(assessments) :
              impulse_dates(rows) = response.impulse_dates

(* C14: impulse aggregation depends only on the set of records: the same    *)
(* records presented in any two orders give the same list of impulses (same *)
(* dates, same ratings maps, same averages), and the aggregation repeated   *)
(* with no write in between gives an identical result.                      *)
C14_AggregationOrderIndependent == SameInEveryOrder

\* C14 for records of which no two share a date and an indicator key
C14_OrderIndependentWithoutRewrites == NoSameDayRewrite => SameInEveryOrder

\* the second part of C14: a history request repeated with no write in
\* between, the query returning the rows in the same order, returns the
\* impulses the first one returned
C14_RepeatedRequestIdentical ==
    [][(/\ response.status = "ok"
        /\ assessments' = assessments
        /\ response.op \in {"get_impulse_history", "impulse_history_get"}
        /\ response'.op = response.op
        /\ response'.status = "ok"
        /\ response.op = "get_impulse_history" => response'.limit = response.limit
        /\ stakeholder_assessments' = stakeholder_assessments)
       => IF response.op = "get_impulse_history"
          THEN response'.impulses = response.impulses
          ELSE response'.impulse_dates = response.impulse_dates]_vars

----------------------------------------------------------------------------
(* Further properties of generate_pattern. *)

Archetypes ==
    {"honeymoon_dip_recovery", "steady_improvement", "struggle_then_improve",
     "volatile", "declining"}

(* C15: generate_pattern called with a pattern_type outside the five        *)
(* archetypes raises no error and, with noise_level 0, returns num_points   *)
(* ratings all equal to the resolved baseline (group-type baseline plus     *)
(* indicator modifier, clamped to [1, 10], rounded to one decimal).         *)
C15_UnknownPatternIsFlat ==
    (/\ PatternReturned
     /\ generated.pattern_type \notin Archetypes
     /\ generated.noise_level = 0) =>
        /\ Len(generated.ratings) = generated.num_points
        /\ \A j \in 1..Len(generated.ratings) :
              generated.ratings[j]
                  = get_base_rating(generated.group_type, generated.indicator_key)

\* "plateau" for mitarbeitende / widerstandsmanagement without noise: 5.0 throughout
C15_Witness ==
    /\ PatternReturned
    /\ generated.pattern_type = "plateau"
    /\ generated.noise_level = 0
    /\ generated.group_type = "mitarbeitende"
    /\ generated.indicator_key = "widerstandsmanagement"
    /\ generated.num_points = 3
    /\ generated.ratings = <<50, 50, 50>>

\* tenths a noise-free series of each archetype lies above its baseline at
\* progress 0 and at progress 1, rounded: +1.5/+0.5, -0.41/+1.41, -1.5/+1.5,
\* +0.42/+0.27, +0.5/-2.0; an unrecognized pattern stays at the baseline
OffsetAtStart(pattern_type) ==
    CASE pattern_type = "honeymoon_dip_recovery" -> 15
      [] pattern_type = "steady_improvement" -> -4
      [] pattern_type = "struggle_then_improve" -> -15
      [] pattern_type = "volatile" -> 4
      [] pattern_type = "declining" -> 5
      [] OTHER -> 0

OffsetAtEnd(pattern_type) ==
    CASE pattern_type = "honeymoon_dip_recovery" -> 5
      [] pattern_type = "steady_improvement" -> 14
      [] pattern_type = "struggle_then_improve" -> 15
      [] pattern_type = "volatile" -> 3
      [] pattern_type = "declining" -> -20
      [] OTHER -> 0

(* C16: for every pattern_type and every num_points >= 1 generate_pattern   *)
(* returns exactly num_points ratings; num_points = 1 gives a single rating *)
(* computed at progress 0, and for num_points >= 2 the first point is at    *)
(* progress 0 and the last at progress 1 (seen on the noise-free calls as   *)
(* the value of the shape at these two points).                             *)
C16_NumPointsFromStartToEnd ==
    PatternReturned =>
        /\ Len(generated.ratings) = generated.num_points
        /\ generated.noise_level = 0 =>
              LET base == get_base_rating(generated.group_type, generated.indicator_key)
              IN  /\ generated.ratings[1] = base + OffsetAtStart(generated.pattern_type)
                  /\ generated.num_points >= 2 =>
                        generated.ratings[generated.num_points]
                            = base + OffsetAtEnd(generated.pattern_type)

\* a single noise-free point of the honeymoon pattern: baseline 6.7 + 1.5
C16_Witness ==
    /\ PatternReturned
    /\ generated.num_points = 1
    /\ generated.noise_level = 0
    /\ generated.pattern_type = "honeymoon_dip_recovery"
    /\ generated.group_type = "fuehrungskraefte"
    /\ generated.indicator_key = "wertschaetzung"
    /\ generated.ratings = <<82>>

\* four noise-free points of the declining pattern, from 6.7 + 0.5 to 6.7 - 2.0
C16_EndWitness ==
    /\ PatternReturned
    /\ generated.num_points = 4
    /\ generated.noise_level = 0
    /\ generated.pattern_type = "declining"
    /\ generated.group_type = "fuehrungskraefte"
    /\ generated.indicator_key = "wertschaetzung"
    /\ generated.ratings[1] = 72
    /\ generated.ratings[4] = 47

\* the two calls have the same arguments
SameArguments(c, d) ==
    /\ c.pattern_type = d.pattern_type
    /\ c.num_points = d.num_points
    /\ c.group_type = d.group_type
    /\ c.indicator_key = d.indicator_key
    /\ c.noise_level = d.noise_level

(* C17: with noise_level = 0, two calls of generate_pattern with identical  *)
(* arguments return identical sequences, whatever the random source gave    *)
(* to the calls made before and in between.                                 *)
C17_NoiseFreeCallsRepeat ==
    (PatternReturned /\ generated.noise_level = 0) =>
        \A c \in earlier : SameArguments(c, generated) => c.ratings = generated.ratings

\* a noise-free call repeated after a noisy call that returned another sequence
C17_Witness ==
    /\ PatternReturned
    /\ generated.noise_level = 0
    /\ generated.num_points = 2
    /\ \E c \in earlier : SameArguments(c, generated) /\ c.ratings = generated.ratings
    /\ \E c \in earlier :
          /\ c.noise_level > 0
          /\ c.num_points = 2
          /\ c.ratings # generated.ratings

\* generate_assessment_history has returned from the call of the scenario
ScenarioReturned ==
    /\ history.returned
    /\ history.pattern_type = "honeymoon_dip_recovery"
    /\ history.num_impulses = 13
    /\ history.group_type = "fuehrungskraefte"
    /\ history.indicator_keys = <<"orientierung_sinn">>
    /\ history.noise_level = 0

\* the series of the scenario
ScenarioSeries == history.result["orientierung_sinn"]

\* the resolved baseline of the scenario, 6.5
ScenarioBaseline == get_base_rating("fuehrungskraefte", "orientierung_sinn")

\* the points whose progress (j - 1) / (n - 1) lies in 30% .. 45%
DipPoints ==
    {j \in 1..history.num_impulses :
        /\ 100 * (j - 1) >= 30 * Steps(history.num_impulses)
        /\ 100 * (j - 1) <= 45 * Steps(history.num_impulses)}

\* the least rating of a series
Trough(series) ==
    CHOOSE r \in Range(series) : \A q \in Range(series) : r <= q

(* C18 as stated: the scenario call returns a series whose first rating is *)
(* above the baseline 6.5, whose ratings at the points of 30-45% progress  *)
(* are below the baseline and whose last rating is above the trough.       *)
C18_HoneymoonScenario ==
    ScenarioReturned =>
        /\ ScenarioSeries[1] > ScenarioBaseline
        /\ \A j \in DipPoints : ScenarioSeries[j] < ScenarioBaseline
        /\ ScenarioSeries[history.num_impulses] > Trough(ScenarioSeries)

(* C18: the scenario call hands generate_pattern the noise level 0.1, and  *)
(* whatever noise is drawn the first rating is above the baseline 6.5, the *)
(* rating at the last point of 30-45% progress is below the baseline and   *)
(* the last rating is above the trough of the series.                      *)
C18_HoneymoonScenarioWithNoise ==
    ScenarioReturned =>
        /\ history.sigma["orientierung_sinn"] = 1
        /\ ScenarioSeries[1] > ScenarioBaseline
        /\ \E j \in DipPoints :
              /\ \A k \in DipPoints : k <= j
              /\ ScenarioSeries[j] < ScenarioBaseline
        /\ ScenarioSeries[history.num_impulses] > Trough(ScenarioSeries)

\* the scenario with the rating at 33% progress at 6.8 and the last rating
\* one tenth above the trough
C18_Witness ==
    /\ ScenarioReturned
    /\ ScenarioSeries[5] = 68
    /\ ScenarioSeries[6] = 61
    /\ ScenarioSeries[13] = 61
    /\ Trough(ScenarioSeries) = 60

\* the trend of the generated series has been computed
SeriesAnalyzed == generated.returned /\ response.op = "trend"

\* 6.5 - 2.5 * (i / 12)^2 for i = 0..12, rounded to one decimal, in tenths
DecliningSeries == <<65, 65, 64, 63, 62, 61, 59, 56, 54, 51, 48, 44, 40>>

(* C19: the noise-free declining series of 13 points with baseline 6.0 has *)
(* the values 6.5 - 2.5 * (i/12)^2 rounded to one decimal and, fed to the  *)
(* trend computation most recent first, is classified as "down".           *)
C19_DecliningSeriesTrendsDown ==
    (/\ SeriesAnalyzed
     /\ generated.pattern_type = "declining"
     /\ generated.num_points = 13
     /\ generated.noise_level = 0
     /\ get_base_rating(generated.group_type, generated.indicator_key) = 60) =>
        /\ generated.ratings = DecliningSeries
        /\ response.trend = "down"

\* the declining series of multiplikatoren / orientierung_sinn classified
C19_Witness ==
    /\ SeriesAnalyzed
    /\ generated.pattern_type = "declining"
    /\ generated.num_points = 13
    /\ generated.group_type = "multiplikatoren"
    /\ generated.indicator_key = "orientierung_sinn"
    /\ generated.ratings = DecliningSeries
    /\ response.trend = "down"

\* create_impulse_history has returned
Seeded == response.op = "seed"

\* the sample date of the j-th impulse set
SampleDate(j) == response.impulses[j][1].assessed_at

\* every row of the j-th impulse set is stored with the set's sample date
SampleStored(j) ==
    \A k \in 1..Len(response.impulses[j]) :
        /\ response.impulses[j][k].assessed_at = SampleDate(j)
        /\ response.impulses[j][k] \in Range(stakeholder_assessments)

(* C20 as stated: the num_impulses sample dates are placed evenly: for     *)
(* num_impulses >= 2 consecutive sample dates are exactly                  *)
(* start_days_ago / (num_impulses - 1) days apart, the first lies          *)
(* start_days_ago days before the call time and the last at the call time; *)
(* for num_impulses = 1 there is a single date.                            *)
C20_SampleDatesEvenlySpaced ==
    Seeded =>
        /\ Len(response.impulses) = response.num_impulses
        /\ \A j \in 1..response.num_impulses : SampleStored(j)
        /\ response.num_impulses >= 2 =>
              /\ \A j \in 1..response.num_impulses - 1 :
                    (SampleDate(j + 1) - SampleDate(j)) * (response.num_impulses - 1)
                        = response.start_days_ago * TicksPerDay
              /\ SampleDate(1) = clock - response.start_days_ago * TicksPerDay
              /\ SampleDate(response.num_impulses) = clock

\* the same for the calls whose start_days_ago is a multiple of
\* num_impulses - 1
C20_EvenlySpacedWhenDivisible ==
    (/\ Seeded
     /\ response.num_impulses >= 2
     /\ response.start_days_ago % (response.num_impulses - 1) = 0) =>
        /\ \A j \in 1..response.num_impulses - 1 :
              (SampleDate(j + 1) - SampleDate(j)) * (response.num_impulses - 1)
                  = response.start_days_ago * TicksPerDay
        /\ SampleDate(1) = clock - response.start_days_ago * TicksPerDay
        /\ SampleDate(response.num_impulses) = clock

\* the first sample lies start_days_ago days before the call time, whole
\* days apart from every other sample
C20_FirstSampleAtStart ==
    Seeded =>
        /\ Len(response.impulses) = response.num_impulses
        /\ SampleDate(1) = clock - response.start_days_ago * TicksPerDay
        /\ \A j \in 1..response.num_impulses :
              /\ SampleStored(j)
              /\ (SampleDate(j) - SampleDate(1)) % TicksPerDay = 0

\* the last sample lies at the call time
C20_LastSampleAtCallTime ==
    (Seeded /\ response.num_impulses >= 2) =>
        SampleDate(response.num_impulses) = clock

\* four samples over ten days, placed 3, 3 and 4 days apart
C20_UnevenWitness ==
    /\ Seeded
    /\ response.num_impulses = 4
    /\ response.start_days_ago = 10
    /\ SampleDate(2) - SampleDate(1) = 3 * TicksPerDay
    /\ SampleDate(3) - SampleDate(2) = 3 * TicksPerDay
    /\ SampleDate(4) - SampleDate(3) = 4 * TicksPerDay

\* ScenarioGenerator.create_impulse_history has returned
ScenarioSeeded == response.op = "scenario"

\* the indicators applicable to the group type of the model
Applicable == Range(get_indicators_for_group_type(GroupType))

\* the records of the j-th impulse set for an indicator
RecordsOf(j, key) ==
    {k \in 1..Len(response.impulses[j]) : response.impulses[j][k].indicator_key = key}

(* C21: with the rating history of generate_assessment_history for the     *)
(* same group type and num_impulses, create_impulse_history emits exactly  *)
(* one record per (applicable indicator, sample index), num_impulses times *)
(* the number of applicable indicators in all, and each record's rating is *)
(* the synthesized rating of that indicator at that index rounded to an    *)
(* integer in 1..10, never a random fallback rating.                       *)
C21_OneRecordPerIndicatorAndSample ==
    ScenarioSeeded =>
        /\ Len(response.impulses) = response.num_impulses
        /\ Len(stakeholder_assessments) = response.num_impulses * Cardinality(Applicable)
        /\ stakeholder_assessments = Flatten(response.impulses)
        /\ \A a, b \in 1..Len(stakeholder_assessments) :
              stakeholder_assessments[a].id = stakeholder_assessments[b].id => a = b
        /\ \A j \in 1..response.num_impulses :
              /\ \A k \in 1..Len(response.impulses[j]) :
                    response.impulses[j][k].indicator_key \in Applicable
              /\ \A key \in Applicable :
                    /\ Cardinality(RecordsOf(j, key)) = 1
                    /\ \A k \in RecordsOf(j, key) :
                          /\ response.impulses[j][k].rating
                                = IntRound(response.rating_history[key][j])
                          /\ response.impulses[j][k].rating \in 1..10

\* two impulses of five indicators each, one synthesized 6.5 stored as 6 and
\* one stored above the fallback range 4..8
C21_Witness ==
    /\ ScenarioSeeded
    /\ response.num_impulses = 2
    /\ Len(stakeholder_assessments) = 10
    /\ \E j \in 1..2, key \in Applicable :
          /\ response.rating_history[key][j] % 10 = 5
          /\ \E k \in RecordsOf(j, key) :
                response.impulses[j][k].rating * 10 # response.rating_history[key][j]
    /\ \E k \in 1..10 : stakeholder_assessments[k].rating \notin RandInt

(* C22: assembling an impulse history does not itself persist anything: a  *)
(* call of create_impulse_history leaves the stored                        *)
(* stakeholder_assessments unchanged and only returns the matrix of        *)
(* records.                                                                *)
C22_AssemblingPersistsNothing ==
    [][response'.op = "seed" =>
          stakeholder_assessments' = stakeholder_assessments]_vars

\* what the call does instead: every record of the returned matrix is a row
\* of the table when the call returns
C22_ReturnedRecordsAreStored ==
    Seeded =>
        /\ stakeholder_assessments = Flatten(response.impulses)
        /\ Len(stakeholder_assessments)
              = response.num_impulses * Cardinality(Applicable)

\* the handlers of the router that add
HttpAdds == {"add_stakeholder_assessment", "batch_add_assessments"}

\* the record the last call returned for the row new: add_stakeholder_assessment
\* returns one record, batch_add_assessments a list of them
ReturnedFor(new) ==
    IF response'.status # "ok" THEN {}
    ELSE IF response'.op = "add_stakeholder_assessment"
    THEN {r \in {response'.assessment} : r.id = new.id /\ r.indicator_key = new.indicator_key}
    ELSE IF response'.op = "batch_add_assessments"
    THEN {r \in Range(response'.results) :
             r.id = new.id /\ r.indicator_key = new.indicator_key}
    ELSE {}

\* the records that exist before and after a step, as <<before, after>>
Surviving ==
    {<<stakeholder_assessments[i], stakeholder_assessments'[j]>> :
        <<i, j>> \in {p \in (1..Len(stakeholder_assessments))
                              \X (1..Len(stakeholder_assessments')) :
                         stakeholder_assessments[p[1]].id
                            = stakeholder_assessments'[p[2]].id}}

(* C23: a record is immutable once created: in every sequence of           *)
(* add_stakeholder_assessment, batch_add_assessments, assessment_create,   *)
(* assessment_batch_create and deletes, a record that still exists keeps   *)
(* the rating, notes and assessed_at it was created with.                  *)
C23_RecordsImmutable ==
    [][\A p \in Surviving : p[2] = p[1]]_vars

(* C23 as the code has it: a record keeps its id and its indicator for as  *)
(* long as it exists; the MCP tools and the deletes leave every other      *)
(* record as it was; only add_stakeholder_assessment and                   *)
(* batch_add_assessments change the rating, notes and assessed_at of an    *)
(* existing record, and then return it under its id and its indicator.     *)
C23_OnlyHttpAddOverwrites ==
    [][\A p \in Surviving :
          /\ p[2].indicator_key = p[1].indicator_key
          /\ \/ p[2] = p[1]
             \/ /\ response'.op \in HttpAdds
                /\ ReturnedFor(p[2]) # {}]_vars

\* add_stakeholder_assessment has overwritten a record created before the
\* latest one, with a rating other than the one it was created with
C23_Witness ==
    /\ response.op = "add_stakeholder_assessment"
    /\ response.status = "ok"
    /\ response.assessment.id < next_id
    /\ response.assessment.rating = 8
    /\ \E i \in 1..Len(stakeholder_assessments) :
          stakeholder_assessments[i] = response.assessment
    /\ Len(stakeholder_assessments) = 2

\* batch_add_assessments has returned
BatchReturned == response.op = "batch_add_assessments"

\* a submitted assessment the handler accepts for the group
Accepted(group_id, a) ==
    /\ group_exists(group_id)
    /\ a.rating \in 1..10
    /\ a.indicator_key \in valid_keys
    /\ a.assessed_at # Unparsable

AcceptedOf(group_id, submitted) ==
    SelectSeq(submitted, LAMBDA a : Accepted(group_id, a))

RejectedOf(group_id, submitted) ==
    SelectSeq(submitted, LAMBDA a : ~Accepted(group_id, a))

(* C30: batch_add_assessments handles every submitted assessment on its    *)
(* own and in order: success_count + error_count is the number submitted;  *)
(* the results are the accepted assessments in the order submitted and the *)
(* errors the rejected ones, so an accepted assessment is stored whatever  *)
(* happens to the others (its record is in the table, as returned unless a *)
(* later member of the list wrote the same record); and the insight        *)
(* generation is scheduled iff at least one succeeded and none failed.     *)
C30_BatchHandlesEachIndependently ==
    BatchReturned =>
        LET ok == AcceptedOf(response.group_id, response.submitted)
            bad == RejectedOf(response.group_id, response.submitted)
        IN  /\ response.success_count + response.error_count = Len(response.submitted)
            /\ response.success_count = Len(response.results)
            /\ response.error_count = Len(response.errors)
            /\ Len(response.results) = Len(ok)
            /\ Len(response.errors) = Len(bad)
            /\ \A k \in 1..Len(ok) :
                  /\ response.results[k].indicator_key = ok[k].indicator_key
                  /\ response.results[k].rating = ok[k].rating
                  /\ response.results[k].notes = ok[k].notes
                  /\ \E i \in 1..Len(stakeholder_assessments) :
                        /\ stakeholder_assessments[i].id = response.results[k].id
                        /\ \/ stakeholder_assessments[i] = response.results[k]
                           \/ \E later \in (k + 1)..Len(ok) :
                                 response.results[later].id = response.results[k].id
            /\ \A k \in 1..Len(bad) :
                  response.errors[k].indicator_key = bad[k].indicator_key
            /\ response.created_task
                  <=> (response.success_count >= 1 /\ response.error_count = 0)

\* a list of one accepted and one rejected assessment: the accepted one is
\* stored, and no insight generation is scheduled
C30_Witness ==
    /\ BatchReturned
    /\ Len(response.submitted) = 2
    /\ response.success_count = 1
    /\ response.error_count = 1
    /\ ~Accepted(response.group_id, response.submitted[1])
    /\ ~response.created_task
    /\ \E i \in 1..Len(stakeholder_assessments) :
          stakeholder_assessments[i] = response.results[1]

\* a list whose members all succeeded: the insight generation is scheduled
C30_ScheduledWitness ==
    /\ BatchReturned
    /\ response.success_count = 2
    /\ response.created_task

\* the error a rating outside 1..10 is answered with
RatingError == "Rating must be between 1 and 10"

(* C24: a rating outside 1..10 never reaches the stored history:           *)
(* add_stakeholder_assessment and assessment_create answer it with an      *)
(* error and leave the table as it was, assessment_batch_create adds       *)
(* exactly the records it returns, all rated within 1..10, and so every    *)
(* stored rating is an integer in 1..10 after every operation.             *)
C24_OutOfRangeNeverStored ==
    [][/\ \A i \in 1..Len(stakeholder_assessments') :
             stakeholder_assessments'[i].rating \in 1..10
       /\ (response'.status = "error" /\ response'.detail = RatingError)
             => stakeholder_assessments' = stakeholder_assessments
       /\ (response'.op = "assessment_batch_create" /\ response'.status = "ok")
             => /\ stakeholder_assessments'
                      = stakeholder_assessments \o response'.assessments
                /\ \A k \in 1..Len(response'.assessments) :
                      response'.assessments[k].rating \in 1..10]_vars

\* assessment_batch_create was given a rating for "orientierung_sinn" and a
\* rating of 0 for "empowerment" while a record was stored: it added the
\* first alone
C24_Witness ==
    /\ response.op = "assessment_batch_create"
    /\ response.status = "ok"
    /\ response.created_count = 1
    /\ response.assessments[1].indicator_key = "orientierung_sinn"
    /\ Len(stakeholder_assessments) = 2

\* add_stakeholder_assessment and assessment_create have answered a rating
\* out of range with the error
C24_RejectedWitness ==
    /\ response.status = "error"
    /\ response.detail = RatingError
    /\ response.op \in {"add_stakeholder_assessment", "assessment_create"}
    /\ Len(stakeholder_assessments) = 1

\* the calendar date of a stored record, as SQLite's DATE() reads it
StoredDate(a) == SqlDate(a.assessed_at)

\* two records of one indicator on one calendar date
Doubled(i, j) ==
    /\ i # j
    /\ stakeholder_assessments[i].indicator_key = stakeholder_assessments[j].indicator_key
    /\ StoredDate(stakeholder_assessments[i]) = StoredDate(stakeholder_assessments[j])

(* C28: after any sequence of add_stakeholder_assessment,                  *)
(* batch_add_assessments and delete_stakeholder_assessment calls the group *)
(* holds at most one stored assessment per (indicator key, calendar date). *)
C28_OnePerIndicatorAndDate ==
    \A i, j \in 1..Len(stakeholder_assessments) : ~Doubled(i, j)

\* the same with the date read as the first ten characters of assessed_at
C28_OnePerIndicatorAndDatePrefix ==
    \A i, j \in 1..Len(stakeholder_assessments) :
        (/\ stakeholder_assessments[i].indicator_key
               = stakeholder_assessments[j].indicator_key
         /\ DateStr(stakeholder_assessments[i]) = DateStr(stakeholder_assessments[j]))
            => i = j

\* what holds: among the records whose assessed_at carries no UTC offset
\* there is at most one per indicator and date
C28_OnePerIndicatorAndDateWithoutOffset ==
    \A i, j \in 1..Len(stakeholder_assessments) :
        (/\ Doubled(i, j)
         /\ stakeholder_assessments[i].assessed_at # WithOffset)
            => stakeholder_assessments[j].assessed_at = WithOffset

\* impulse_history_get has returned the analysis of the rows it fetched
Analyzed == response.op = "impulse_history_get" /\ assessments # <<>>

\* the fetched indicators all of whose records carry no rating
Unrated ==
    {key \in Range(KeysInOrder(assessments)) :
        \A i \in 1..Len(assessments) :
            assessments[i].indicator_key = key => assessments[i].rating = None}

(* C25: an indicator all of whose records carry a null rating never makes  *)
(* impulse_history_get divide by zero: the call returns normally, the      *)
(* indicator is in neither indicator_averages nor weak_indicators, and     *)
(* every other fetched indicator has its average.                          *)
C25_UnratedIndicatorOmitted ==
    Analyzed =>
        /\ response.status = "ok"
        /\ response.total_assessments = Len(assessments)
        /\ DOMAIN response.indicator_averages
              = Range(KeysInOrder(assessments)) \ Unrated
        /\ \A k \in 1..Len(response.weak_indicators) :
              response.weak_indicators[k].key \notin Unrated

\* a history in which "empowerment" has two records and no rating, while
\* "orientierung_sinn" is rated, and weak
C25_Witness ==
    /\ Analyzed
    /\ Unrated = {"empowerment"}
    /\ Len(RowsOfKey(assessments, "empowerment")) = 2
    /\ DOMAIN response.indicator_averages = {"orientierung_sinn"}
    /\ Len(response.weak_indicators) = 1

\* a history without any rating: no average at all, and a stable trend
C25_AllUnratedWitness ==
    /\ Analyzed
    /\ Len(assessments) = 4
    /\ Unrated = StoredKeys
    /\ response.average_rating = None
    /\ response.trend = "stable"

\* _honeymoon_dip_recovery has returned
ShapeReturned == response.op = "_honeymoon_dip_recovery"

\* the value num/den (tenths) lies on the line from va at progress a/20 to
\* vb at progress b/20, at the progress i/m
OnLine(value, i, m, a, b, va, vb) ==
    value[1] * (b - a) * m
        = (va * (b - a) * m + (vb - va) * (20 * i - a * m)) * value[2]

(* C26: the noise-free honeymoon_dip_recovery shape is piecewise linear in *)
(* the progress p: baseline + 1.5 at p = 0, falling to baseline + 1.0 as p *)
(* reaches 0.15, falling to baseline - 1.5 as p reaches 0.45, rising to    *)
(* baseline + 0.5 at p = 1; the pieces agree at the breakpoints, and the   *)
(* minimum baseline - 1.5 is attained only at p = 0.45.                    *)
C26_HoneymoonPiecewiseLinear ==
    ShapeReturned =>
        LET m == IF response.n > 1 THEN response.n - 1 ELSE 1
            b == response.base
        IN  /\ Len(response.values) = response.n
            /\ \A j \in 1..response.n :
                  LET i == j - 1
                      v == response.values[j]
                  IN  /\ v[2] > 0
                      /\ 20 * i <= 3 * m => OnLine(v, i, m, 0, 3, b + 15, b + 10)
                      /\ (3 * m <= 20 * i /\ 20 * i <= 9 * m)
                            => OnLine(v, i, m, 3, 9, b + 10, b - 15)
                      /\ 9 * m <= 20 * i => OnLine(v, i, m, 9, 20, b - 15, b + 5)
                      /\ v[1] >= (b - 15) * v[2]
                      /\ (v[1] = (b - 15) * v[2]) <=> (20 * i = 9 * m)

\* 21 points: the fourth lies on the first breakpoint, the tenth on the
\* second, where the shape is at its minimum, and the last at baseline + 0.5
C26_Witness ==
    /\ ShapeReturned
    /\ response.n = 21
    /\ response.values[1][1] = (response.base + 15) * response.values[1][2]
    /\ response.values[4][1] = (response.base + 10) * response.values[4][2]
    /\ response.values[10][1] = (response.base - 15) * response.values[10][2]
    /\ response.values[21][1] = (response.base + 5) * response.values[21][2]

\* the dates impulse_dates lists
ListedDates == {response.impulse_dates[i].date : i \in 1..Len(response.impulse_dates)}

(* C27: impulse_dates of impulse_history_get holds at most 10 entries, the *)
(* 10 most recent distinct dates (all of them when there are fewer) in     *)
(* descending order, while total_assessments, trend, average_rating and    *)
(* indicator_averages are computed over all fetched records.               *)
C27_TenMostRecentDates ==
    Analyzed =>
        /\ Len(response.impulse_dates) <= 10
        /\ Len(response.impulse_dates)
              = (IF Cardinality(FetchedDates) < 10 THEN Cardinality(FetchedDates) ELSE 10)
        /\ ListedDates \subseteq FetchedDates
        /\ \A i \in 1..(Len(response.impulse_dates) - 1) :
              response.impulse_dates[i].date > response.impulse_dates[i + 1].date
        /\ \A d \in FetchedDates \ ListedDates : \A l \in ListedDates : d < l
        /\ response.total_assessments = Len(assessments)
        /\ response.trend = Trend(RatingsOf(assessments))
        /\ response.average_rating
              = Round1(Sum(RatingsOf(assessments)), Len(RatingsOf(assessments)))
        /\ \A key \in DOMAIN response.indicator_averages :
              response.indicator_averages[key]
                 = Round1(Sum(RatingsOf(RowsOfKey(assessments, key))),
                          Len(RatingsOf(RowsOfKey(assessments, key))))

\* a history on eleven dates: the oldest is not listed, and an assessment
\* rated 4 on the latest date has moved the average of all records below 6.0
C27_Witness ==
    /\ Analyzed
    /\ Cardinality(FetchedDates) = 11
    /\ Len(response.impulse_dates) = 10
    /\ FetchedDates \ ListedDates # {}
    /\ response.average_rating < 60
    /\ Len(assessments) > 10

\* the trend labels the read orders of the stored records give
TrendLabels ==
    {Trend(RatingsOf(rows)) : rows \in ReadOrders(stakeholder_assessments)}

\* the stored records with equal timestamps carry equal ratings
TiesRatedAlike ==
    \A i, j \in 1..Len(stakeholder_assessments) :
        stakeholder_assessments[i].assessed_at = stakeholder_assessments[j].assessed_at
            => stakeholder_assessments[i].rating = stakeholder_assessments[j].rating

(* C29: the trend impulse_history_get reports depends only on the set of   *)
(* records: every read order that is descending by assessed_at, whatever   *)
(* the order of the records with equal timestamps, gives the trend label   *)
(* that was returned.                                                      *)
C29_TrendSameInEveryReadOrder ==
    (response.op = "impulse_history_get" /\ response.status = "ok")
        => TrendLabels = {response.trend}

\* what holds: the label is the same when the records that share a
\* timestamp carry the same rating
C29_TrendSameWhenTiesRatedAlike ==
    (response.op = "impulse_history_get" /\ response.status = "ok" /\ TiesRatedAlike)
        => TrendLabels = {response.trend}

\* one impulse of four records whose read orders give "up" and "down"
C29_BothLabelsWitness ==
    /\ response.op = "impulse_history_get"
    /\ Len(stakeholder_assessments) = 4
    /\ {"up", "down"} \subseteq TrendLabels


====
